---- MODULE Spec2Model ----
(***************************************************************************)
(* A model of the mwcc client (class MWCCStatic, src/unnamed/part_004):    *)
(* the request executor (ajax), the token cache (getToken, badToken), the  *)
(* token-guarded post (postWithToken), the continuation driver             *)
(* (continuedQuery), the batch splitter (massQuery) and abort().  Spec is  *)
(* an instance of MWCCStatic; SpecMWCC is an instance of the class MWCC of *)
(* src/src/mwcc.ts, which differs in the body ajax leaves in options.data  *)
(* and in the chain of the retry POST of postWithToken.                    *)
(*                                                                         *)
(* One client instance is driven by a bounded number of calls that run in  *)
(* NumSlots concurrent slots.  JavaScript runs every synchronous stretch   *)
(* of code to completion, so one action is one such stretch: a call up to  *)
(* the request it issues, or the transport settling a request together     *)
(* with the promise callbacks that then run, up to the next request.  A    *)
(* promise that is already resolved (a cache hit) runs its callback in the *)
(* same stretch: the callback reads no state that another stretch could    *)
(* change in between.                                                      *)
(***************************************************************************)
EXTENDS Integers, Sequences, FiniteSets, TLC

(***************************************************************************)
(* Bounds of the model.                                                    *)
(***************************************************************************)
NumSlots == 1
MaxCalls == 2
MaxBadToken == 1
MaxAbort == 1
MaxLimit == 2
MaxBatch == 3

Slots == 1..NumSlots

(***************************************************************************)
(* JavaScript values.  A value is tagged with its typeof; an object holds  *)
(* a record of its properties, and a property that is absent is not in the *)
(* record's domain.                                                        *)
(***************************************************************************)
Undef == [t |-> "undefined"]
Null == [t |-> "null"]
Str(s) == [t |-> "string", v |-> s]
Obj(r) == [t |-> "object", v |-> r]
Arr(a) == [t |-> "array", v |-> a]
Num(n) == [t |-> "number", v |-> n]
Bool(b) == [t |-> "boolean", v |-> b]

Truthy(x) ==
    CASE x.t = "string" -> x.v # ""
      [] x.t = "number" -> x.v # 0
      [] x.t = "boolean" -> x.v
      [] OTHER -> x.t \in {"object", "array"}

Has(o, k) == o.t = "object" /\ k \in DOMAIN o.v

\* o.k, for a property that holds a tagged value
Get(o, k) == IF Has(o, k) THEN o.v[k] ELSE Undef

(***************************************************************************)
(* Token names and token sets (ApiResponseQueryMetaTokens): the model      *)
(* keeps two of the token types, and token strings that include the empty  *)
(* string.                                                                 *)
(***************************************************************************)
TokenNames == {"csrftoken", "watchtoken"}

\* The token sets the modelled server answers meta=tokens with.
ServerTokenSets ==
    {<<>>, [csrftoken |-> ""], [csrftoken |-> "a"], [watchtoken |-> "a"],
     [csrftoken |-> "b", watchtoken |-> "a"]}

\* As csrfActions, were 'options' not in the list.
csrfActionsButOptions ==
    {"edit", "delete", "protect", "move", "block", "unblock", "email", "import"}

csrfActions ==
    {"edit", "delete", "protect", "move", "block", "unblock", "email",
     "import", "options"}

mapLegacyToken(action) == IF action \in csrfActions THEN "csrf" ELSE action

TokenName(tokenType) == mapLegacyToken(tokenType) \o "token"

\* The token types the modelled calls pass.
TypeArgs == {"csrf", "watch", "edit"}

\* `if (this.tokens[tokenName])`: present and not the empty string.
Cached(cache, name) == name \in DOMAIN cache /\ cache[name] # ""

(***************************************************************************)
(* The transport (axios.request).  It fulfils with a response, or rejects  *)
(* with an error; a request whose AbortController was signalled rejects    *)
(* with ERR_CANCELED.                                                      *)
(***************************************************************************)
ApiErrorCodes == {"badtoken", "permissiondenied"}

ErrorBodies == {[error |-> Obj([code |-> c, info |-> "from the API"])] : c \in ApiErrorCodes}

\* A body that is not of the API: its error property is null.
ForeignBodies == {[error |-> Null, result |-> TRUE]}
PlainBody == [batchcomplete |-> TRUE]
ContBody == [batchcomplete |-> FALSE, continue |-> [continue |-> "-||"]]
TokenBodies == {[batchcomplete |-> TRUE, query |-> [tokens |-> ts]] : ts \in ServerTokenSets}

Fulfilled(response) == [ok |-> TRUE, r |-> response]
Failed(error) == [ok |-> FALSE, r |-> error]
NoTr == [ok |-> FALSE, r |-> Undef]

Canceled == Failed(Obj([code |-> "ERR_CANCELED", message |-> "canceled"]))
NetworkError == Failed(Obj([code |-> "ERR_NETWORK", message |-> "Network Error"]))

\* What the transport may fulfil a request with, by what the request asks for:
\* a response that has no usable body, or one with a body of the API.
Malformed(purpose) ==
    CASE purpose = "query" -> {Undef, Obj([data |-> Undef]), Obj([data |-> Str("")]),
                               Obj([data |-> Str("<!DOCTYPE html>")])}
      [] purpose = "chunk" -> {}
      [] OTHER -> {Obj([data |-> Str("")]), Obj([data |-> Str("<!DOCTYPE html>")])}

Bodies(purpose) ==
    CASE purpose = "tokens" -> ErrorBodies \cup TokenBodies \cup {PlainBody}
      [] purpose = "post" -> ErrorBodies \cup {PlainBody}
      [] purpose = "chunk" -> {[error |-> Obj([code |-> "badtoken", info |-> "from the API"])],
                               PlainBody}
      [] OTHER -> ErrorBodies \cup ForeignBodies \cup {PlainBody, ContBody, <<>>,
                                    [batchcomplete |-> TRUE, query |-> [tokens |-> [csrftoken |-> "b"]]]}

TransportResults(purpose, sig) ==
    IF sig THEN {Canceled}
    ELSE {NetworkError} \cup {Fulfilled(r) : r \in Malformed(purpose)}
             \cup {Fulfilled(Obj([data |-> Obj(b)])) : b \in Bodies(purpose)}

(***************************************************************************)
(* Promise settlements.                                                    *)
(***************************************************************************)
Resolved(v) == [st |-> "resolved", val |-> v]
Rejected(v) == [st |-> "rejected", val |-> v]
Pending == [st |-> "pending", val |-> Undef]

ErrV(code, info) == Obj([error |-> Obj([code |-> code, info |-> info])])
ErrD(code, info, details) ==
    Obj([error |-> Obj([code |-> code, info |-> info, details |-> details])])

\* err.error?.code
ErrCode(v) == IF Has(Get(v, "error"), "code") THEN v.v.error.v.code ELSE ""

(***************************************************************************)
(* ajax: the settlement of the promise ajax returns, from what the         *)
(* transport did.                                                          *)
(***************************************************************************)
\* The then of axios.request.
ajaxThen(response) ==
    IF ~Truthy(response) \/ ~Truthy(Get(response, "data"))
    THEN Rejected(ErrD("ok-but-empty", "OK response but empty result (check HTTP headers?)",
                       response))
    ELSE IF response.v.data.t \notin {"object", "array"}
    THEN Rejected(ErrV("invalidjson", "Invalid JSON response (check the request URL?)"))
    ELSE IF Truthy(Get(response.v.data, "error"))
    THEN Rejected(response.v.data)
    ELSE Resolved(response.v.data)

\* As ajaxCatch, were the cancellation not told from the other failures.
ajaxCatchAll(error) == Rejected(ErrD("http", "HTTP request failed", error))

\* The catch of axios.request.
ajaxCatch(error) ==
    IF Truthy(error) /\ Has(error, "code") /\ error.v.code = "ERR_CANCELED"
    THEN Rejected(ErrV("aborted", "HTTP request aborted by user"))
    ELSE Rejected(ErrD("http", "HTTP request failed", error))

ajaxSettle(tr) == IF tr.ok THEN ajaxThen(tr.r) ELSE ajaxCatch(tr.r)

(***************************************************************************)
(* The state.                                                              *)
(***************************************************************************)
VARIABLES
    impl,       \* the class of the instance: MWCCStatic, or MWCC of src/mwcc.ts
    defaults,   \* this.axios.defaults.params: options.params of the constructor
    peers,      \* instances made side by side, and what their module shares
    tokens,     \* this.tokens: the token cache of the instance
    aborts,     \* this.aborts: the number of AbortControllers in the array
    tasks,      \* the call running (or last run) in each slot
    hist,       \* what has happened to each cache entry (for the claims)
    budget,     \* calls made so far: [calls, bad, abort]
    config      \* this.configData, and the last call of config with what it returned

vars == <<impl, defaults, peers, tokens, aborts, tasks, hist, budget, config>>

\* A call: its kind and where it is, the tokenType it was passed, its
\* params.token and options.data, the requests it has in flight, the POSTs
\* and token fetches it has issued, the last transport result its callbacks
\* ran on, how its first POST, its retry POST and its own promise settled.
\* continuedQuery keeps count, limit and responses; massQuery keeps the
\* outcome of each chunk POST in responses, the arguments it was called with
\* in call and what the caller's parameters object holds in caller.
NoTask ==
    [kind |-> "none", pc |-> "idle", arg |-> "", token |-> Undef, optsData |-> Undef,
     io |-> <<>>, posts |-> 0, fetches |-> 0, tr |-> NoTr,
     first |-> Pending, second |-> Pending, res |-> Pending,
     count |-> 0, limit |-> 0, responses |-> <<>>, call |-> Undef, caller |-> Undef,
     issued |-> 0]

\* A request as ajax issues it: its controller is in this.aborts.  inval
\* holds the cache entries badToken has been called for since the request
\* was issued.
Request(method, token, params) ==
    [method |-> method, token |-> token, params |-> params, sig |-> FALSE, open |-> TRUE,
     inval |-> {}]

Free(s) == tasks[s].kind = "none" \/ tasks[s].pc \in {"done", "hung"}

\* A call runs in the lowest slot that is free (the slots are interchangeable).
CanStart(s) ==
    /\ Free(s)
    /\ \A r \in Slots : r < s => ~Free(r)
    /\ budget.calls < MaxCalls

\* '\x01', the string the string values of configData start as.
x01 == "x01"

\* NaN, the number the number values of configData start as.
NaN == [t |-> "number", v |-> 0, nan |-> TRUE]

\* private configData = {...}: a string, a number, an array of strings and
\* a record of its nineteen values.
configData ==
    [wgWikiID |-> Str(x01), wgUserId |-> NaN, wgUserGroups |-> Arr(<<Str(x01)>>),
     wgNamespaceIds |-> Obj(<<>>)]

NoConfigCall == [op |-> "none", name |-> "", value |-> Undef, old |-> Undef, ret |-> Undef]

\* The instance after new: an empty cache, no controller, no call made.
Constructed(class) ==
    /\ impl = class
    /\ config = [data |-> configData, last |-> NoConfigCall]
    /\ tokens = <<>>
    /\ aborts = 0
    /\ tasks = [s \in Slots |-> NoTask]
    /\ hist = [n \in TokenNames |->
                  [bad |-> FALSE, fill |-> FALSE, kept |-> FALSE, stale |-> FALSE]]
    /\ budget = [calls |-> 0, bad |-> 0, abort |-> 0]

\* No instance but this one.
NoPeers == <<>>

\* new MWCCStatic(apiUrl): no options, so the Axios instance has no params of
\* its own.
Init == Constructed("MWCCStatic") /\ defaults = <<>> /\ peers = NoPeers

InitMWCC == Constructed("MWCC") /\ defaults = <<>> /\ peers = NoPeers

(***************************************************************************)
(* ajax, the synchronous part: the token is taken out of the parameters    *)
(* and put back last; a POST builds its body on options.data, and when     *)
(* options.data already is the URLSearchParams of an earlier POST made     *)
(* with the same options object, Object.assign only adds properties to     *)
(* that object and new URLSearchParams(data) copies its entries: the body  *)
(* is the earlier body.                                                    *)
(***************************************************************************)
ajaxToken(token) == IF token.t = "string" /\ token.v # "" THEN token ELSE Undef

\* URLSearchParams.toString() of a body.
toString(body) ==
    "action=query&format=json&formatversion=2"
        \o IF body.token.t = "string" THEN "&token=" \o body.token.v ELSE ""

\* What ajax leaves in options.data after a POST: MWCCStatic the
\* URLSearchParams, MWCC its string; Api works on a copy of options and
\* leaves options as it was.
optionsData(class, body) ==
    IF class = "MWCC" THEN Str(toString(body))
    ELSE IF class = "Api" THEN Undef
    ELSE Obj(body)

\* Object.assign(options.data || {}, ...) on a string gives a String object,
\* and new URLSearchParams of it throws: its elements are no [name, value]
\* pairs.
ajaxThrows(method, optsData) == method = "POST" /\ optsData.t = "string" /\ optsData.v # ""

TypeError ==
    Obj([name |-> "TypeError",
         message |-> "Each query pair must be an iterable [name, value] tuple"])

postBody(token, optsData) ==
    IF Truthy(optsData) THEN optsData.v ELSE [token |-> ajaxToken(token)]

\* The task after ajax has issued a request: one more entry of task.io.
Issue(task, method, token, params) ==
    LET body == IF method = "POST" THEN postBody(token, task.optsData)
                ELSE [token |-> ajaxToken(token)]
    IN [task EXCEPT !.io = Append(@, Request(method, body.token, params)),
                    !.posts = IF method = "POST" THEN @ + 1 ELSE @,
                    !.issued = @ + 1]

Purpose(task) ==
    IF task.pc \in {"fetch", "retryfetch"} THEN "tokens"
    ELSE IF task.pc \in {"post", "retrypost"} THEN "post"
    ELSE IF task.pc = "chunks" THEN "chunk"
    ELSE "query"

\* The requests of slot s that have not settled.
Outstanding(s) == {i \in DOMAIN tasks[s].io : tasks[s].io[i].open}

\* What axios.request may settle request i of slot s with.
ArrivalsAt(s, i) ==
    IF i \in Outstanding(s)
    THEN TransportResults(Purpose(tasks[s]), tasks[s].io[i].sig)
    ELSE {}

Arrivals(s) == ArrivalsAt(s, 1)

\* The call is over: its locals are gone, its settlement stays to be seen.
Finish(task, tr, res) ==
    [task EXCEPT !.pc = "done", !.io = <<>>, !.token = Undef, !.optsData = Undef,
                 !.tr = tr, !.res = res]

\* abort(): every controller of the array is signalled, the array is emptied.
\* The controllers of settled requests are in the array too; signalling them
\* does nothing.
Abort ==
    /\ budget.abort < MaxAbort
    /\ tasks' = [s \in Slots |->
                    [tasks[s] EXCEPT !.io = [i \in DOMAIN @ |-> [@[i] EXCEPT !.sig = @ \/ tasks[s].io[i].open]]]]
    /\ aborts' = 0
    /\ budget' = [budget EXCEPT !.abort = @ + 1]
    /\ UNCHANGED <<config, impl, defaults, peers, tokens, hist>>

(***************************************************************************)
(* get / post: one ajax call.                                              *)
(***************************************************************************)
AjaxCall(s, method) ==
    /\ CanStart(s)
    /\ tasks' = [tasks EXCEPT ![s] =
           Issue([NoTask EXCEPT !.kind = "ajax", !.pc = "req"], method, Undef, <<>>)]
    /\ aborts' = aborts + 1
    /\ budget' = [budget EXCEPT !.calls = @ + 1]
    /\ UNCHANGED <<config, impl, defaults, peers, tokens, hist>>

\* As AjaxLand, were the controller of a settled request taken out of
\* this.aborts.
AjaxLandForgets(s) ==
    /\ tasks[s].kind = "ajax"
    /\ tasks[s].pc = "req"
    /\ \E tr \in Arrivals(s) :
           tasks' = [tasks EXCEPT ![s] = Finish(@, tr, ajaxSettle(tr))]
    /\ aborts' = IF aborts > 0 THEN aborts - 1 ELSE 0
    /\ UNCHANGED <<config, impl, defaults, peers, tokens, hist, budget>>

AjaxLand(s) ==
    /\ tasks[s].kind = "ajax"
    /\ tasks[s].pc = "req"
    /\ \E tr \in Arrivals(s) :
           tasks' = [tasks EXCEPT ![s] = Finish(@, tr, ajaxSettle(tr))]
    /\ UNCHANGED <<config, impl, defaults, peers, tokens, aborts, hist, budget>>

(***************************************************************************)
(* What has happened to each cache entry, kept for the claims:             *)
(*   bad:  badToken has been called for the entry and getToken has not     *)
(*         been called for it since;                                       *)
(*   fill: a token fetch has stored a token in the entry, and since then   *)
(*         badToken has not been called for it and no getToken rejected;   *)
(*   kept: as fill, and since then no token fetch has replaced the cache   *)
(*         by a token set that has no token for the entry;                 *)
(*   stale: the entry holds a token of a token fetch that was issued       *)
(*         before a call of badToken for the entry.                        *)
(***************************************************************************)
HistGet(h, name) == [h EXCEPT ![name].bad = FALSE]

HistBad(h, name) ==
    [h EXCEPT ![name] = [bad |-> TRUE, fill |-> FALSE, kept |-> FALSE, stale |-> FALSE]]

HistStore(h, resToken) ==
    [n \in TokenNames |->
        IF Cached(resToken, n)
        THEN [h[n] EXCEPT !.fill = TRUE, !.kept = TRUE]
        ELSE [h[n] EXCEPT !.kept = FALSE]]

HistFail(h) == [n \in TokenNames |-> [h[n] EXCEPT !.fill = FALSE, !.kept = FALSE]]

(***************************************************************************)
(* getToken and badToken.                                                  *)
(***************************************************************************)
\* badToken(tokenType): the cache afterwards.
badToken(cache, tokenType) ==
    LET tokenName == TokenName(tokenType) IN
    IF Cached(cache, tokenName)
    THEN [n \in DOMAIN cache \ {tokenName} |-> cache[n]]
    ELSE cache

\* res?.query?.tokens
queryTokens(res) ==
    IF Has(res, "query") /\ "tokens" \in DOMAIN res.v.query
    THEN Obj(res.v.query.tokens)
    ELSE Undef

\* As storeTokens, were this.tokens never assigned.
storeNothing(cache, got) == cache

\* As storeTokens, were this.tokens emptied by a response without tokens.
storeOrClear(cache, got) ==
    IF got.st = "resolved"
    THEN IF Truthy(queryTokens(got.val)) THEN queryTokens(got.val).v ELSE <<>>
    ELSE cache

\* this.tokens after getToken's callbacks on the settled GET.
storeTokens(cache, got) ==
    IF got.st = "resolved" /\ Truthy(queryTokens(got.val))
    THEN queryTokens(got.val).v
    ELSE cache

\* How getToken settles on the settled GET.
getTokenSettle(tokenType, got) ==
    IF got.st = "rejected" THEN got
    ELSE LET resToken == queryTokens(got.val)
             tokenName == TokenName(tokenType)
         IN IF Truthy(resToken)
            THEN IF Cached(resToken.v, tokenName)
                 THEN Resolved(Str(resToken.v[tokenName]))
                 ELSE Rejected(ErrV("badnamedtoken",
                          "Could not find a token named \"" \o mapLegacyToken(tokenType)
                              \o "\" (check for typos?)"))
            ELSE Rejected(ErrV("ok-but-empty", "OK response but empty result"))

\* What the fetch has shown: the token set of the response, the failure of
\* the call.
HistLand(h, got, out) ==
    LET h1 == IF got.st = "resolved" /\ Truthy(queryTokens(got.val))
              THEN HistStore(h, queryTokens(got.val).v) ELSE h
    IN IF out.st = "rejected" THEN HistFail(h1) ELSE h1

\* The fetch whose request had seen the calls of badToken in inval has
\* stored its tokens.
HistStale(h, got, inval) ==
    IF got.st = "resolved" /\ Truthy(queryTokens(got.val))
    THEN [n \in TokenNames |->
             [h[n] EXCEPT !.stale = Cached(queryTokens(got.val).v, n) /\ n \in inval]]
    ELSE h

\* badToken has been called for the entry: the token fetches in flight were
\* issued before it.
invalidate(task, name) ==
    IF task.pc \in {"fetch", "retryfetch"}
    THEN [task EXCEPT !.io = [k \in DOMAIN @ |->
                                 IF @[k].open THEN [@[k] EXCEPT !.inval = @ \cup {name}]
                                 ELSE @[k]]]
    ELSE task

\* The fetch getToken issues on a cache miss: get({meta: 'tokens', type: '*'}).
Fetch(task, pc) ==
    [Issue([task EXCEPT !.pc = pc, !.io = <<>>], "GET", Undef, <<>>) EXCEPT !.fetches = @ + 1]

\* getToken up to its return: Promise.resolve(cashedToken), or the fetch.
getToken(cache, tokenType) ==
    LET tokenName == TokenName(tokenType)
        t0 == [NoTask EXCEPT !.kind = "getToken", !.arg = tokenType]
    IN IF Cached(cache, tokenName)
       THEN Finish(t0, NoTr, Resolved(Str(cache[tokenName])))
       ELSE Fetch(t0, "fetch")

GetTokenCall(s, type) ==
    /\ CanStart(s)
    /\ LET after == getToken(tokens, type)
       IN /\ tasks' = [tasks EXCEPT ![s] = after]
          /\ aborts' = aborts + Len(after.io)
          /\ hist' = HistGet(hist, TokenName(type))
    /\ budget' = [budget EXCEPT !.calls = @ + 1]
    /\ UNCHANGED <<config, impl, defaults, peers, tokens>>

GetTokenLand(s) ==
    /\ tasks[s].kind = "getToken"
    /\ tasks[s].pc = "fetch"
    /\ \E tr \in Arrivals(s) :
          LET got == ajaxSettle(tr)
              out == getTokenSettle(tasks[s].arg, got)
          IN /\ tokens' = storeTokens(tokens, got)
             /\ hist' = HistStale(HistLand(hist, got, out), got, tasks[s].io[1].inval)
             /\ tasks' = [tasks EXCEPT ![s] = Finish(@, tr, out)]
    /\ UNCHANGED <<config, impl, defaults, peers, aborts, budget>>

BadTokenCall(type) ==
    /\ budget.bad < MaxBadToken
    /\ tokens' = badToken(tokens, type)
    /\ hist' = HistBad(hist, TokenName(type))
    /\ tasks' = [s \in Slots |-> invalidate(tasks[s], TokenName(type))]
    /\ budget' = [budget EXCEPT !.bad = @ + 1]
    /\ UNCHANGED <<config, impl, defaults, peers, aborts>>

(***************************************************************************)
(* postWithToken.                                                          *)
(***************************************************************************)
\* The callback on a token: params.token = token; this.post(params, options).
\* ajax leaves the body it sent in options.data, and options is the same
\* object in the retry.
\* An exception of ajax goes to the catch(reject) of the chain.
PostIt(class, task, token) ==
    IF ajaxThrows("POST", task.optsData)
    THEN Finish(task, task.tr, Rejected(TypeError))
    ELSE [Issue([task EXCEPT !.token = token, !.io = <<>>,
                             !.pc = IF task.posts = 0 THEN "post" ELSE "retrypost"],
                "POST", token, <<>>)
          EXCEPT !.optsData = optionsData(class, postBody(token, task.optsData))]

\* getToken as postWithToken calls it: served from the cache, the POST
\* follows in the same stretch; otherwise the fetch is issued.
pwtGetToken(class, task, cache, pc) ==
    LET tokenName == TokenName(task.arg) IN
    IF Cached(cache, tokenName) THEN PostIt(class, task, Str(cache[tokenName]))
    ELSE Fetch(task, pc)

\* As catchBadToken, were the catch of the retry POST the catch of the first.
catchEveryBadToken(attempt, err) == ErrCode(err) = "badtoken"

\* As catchBadToken, were every error of the API taken for a bad token.
catchEveryApiError(attempt, err) == attempt = 1 /\ ErrCode(err) \in ApiErrorCodes

\* The catch of the first POST retries on 'badtoken'; the catch of the retry
\* POST is reject.
catchBadToken(attempt, err) == attempt = 1 /\ ErrCode(err) = "badtoken"

\* As thenResolve, were the then of the retry POST left without resolve.
thenResolveFirstOnly(class, attempt) == attempt = 1

\* MWCCStatic passes resolve to the then of both POSTs; MWCC and Api return
\* the promise of the retry POST to a chain nobody reads.
thenResolve(class, attempt) == class = "MWCCStatic" \/ attempt = 1

\* The callbacks of postWithToken on a settled POST: the task and the cache
\* afterwards.
pwtPostLand(class, task, cache, tr) ==
    LET got == ajaxSettle(tr)
        seen == IF task.posts = 1 THEN [task EXCEPT !.first = got, !.tr = tr]
                ELSE [task EXCEPT !.second = got, !.tr = tr]
    IN IF got.st = "resolved"
       THEN [task |-> IF thenResolve(class, task.posts) THEN Finish(seen, tr, got)
                      ELSE [Finish(seen, tr, Pending) EXCEPT !.pc = "hung"],
             tokens |-> cache]
       ELSE IF catchBadToken(task.posts, got.val)
       THEN LET cleared == badToken(cache, task.arg) IN
            [task |-> pwtGetToken(class, [seen EXCEPT !.token = Undef], cleared, "retryfetch"),
             tokens |-> cleared]
       ELSE [task |-> Finish(seen, tr, got), tokens |-> cache]

\* As pwtTokenLand, were the POST made whatever getToken settled with.
pwtTokenLandPosts(class, task, tr) ==
    LET out == getTokenSettle(task.arg, ajaxSettle(tr)) IN
    PostIt(class, [task EXCEPT !.tr = tr], IF out.st = "resolved" THEN out.val ELSE Undef)

\* The callbacks of postWithToken on the settled token fetch.
pwtTokenLand(class, task, tr) ==
    LET out == getTokenSettle(task.arg, ajaxSettle(tr)) IN
    IF out.st = "resolved"
    THEN PostIt(class, [task EXCEPT !.tr = tr], out.val)
    ELSE Finish(task, tr, out)

PostWithTokenCall(s, type) ==
    /\ CanStart(s)
    /\ tasks' = [tasks EXCEPT ![s] =
           pwtGetToken(impl, [NoTask EXCEPT !.kind = "postWithToken", !.arg = type],
                       tokens, "fetch")]
    /\ aborts' = aborts + 1
    /\ hist' = HistGet(hist, TokenName(type))
    /\ budget' = [budget EXCEPT !.calls = @ + 1]
    /\ UNCHANGED <<config, impl, defaults, peers, tokens>>

PWTTokenLand(s, pc) ==
    /\ tasks[s].kind = "postWithToken"
    /\ tasks[s].pc = pc
    /\ \E tr \in Arrivals(s) :
          LET got == ajaxSettle(tr)
              after == pwtTokenLand(impl, tasks[s], tr)
          IN /\ tokens' = storeTokens(tokens, got)
             /\ hist' = HistStale(HistLand(hist, got, getTokenSettle(tasks[s].arg, got)),
                                  got, tasks[s].io[1].inval)
             /\ tasks' = [tasks EXCEPT ![s] = after]
             /\ aborts' = aborts + Len(after.io)
    /\ UNCHANGED <<config, impl, defaults, peers, budget>>

PWTFirstToken(s) == PWTTokenLand(s, "fetch")

PWTRetryToken(s) == PWTTokenLand(s, "retryfetch")

PWTPostLand(s, pc) ==
    /\ tasks[s].kind = "postWithToken"
    /\ tasks[s].pc = pc
    /\ \E tr \in Arrivals(s) :
          LET after == pwtPostLand(impl, tasks[s], tokens, tr)
              retried == after.tokens # tokens \/ after.task.fetches > tasks[s].fetches
              tokenName == TokenName(tasks[s].arg)
          IN /\ tokens' = after.tokens
             /\ tasks' = [r \in Slots |->
                             IF r = s THEN after.task
                             ELSE IF retried THEN invalidate(tasks[r], tokenName)
                             ELSE tasks[r]]
             /\ aborts' = aborts + Len(after.task.io)
             /\ hist' = IF retried THEN HistGet(HistBad(hist, tokenName), tokenName) ELSE hist
    /\ UNCHANGED <<config, impl, defaults, peers, budget>>

PWTFirstPost(s) == PWTPostLand(s, "post")

PWTRetryPost(s) == PWTPostLand(s, "retrypost")

(***************************************************************************)
(* continuedQuery.                                                         *)
(***************************************************************************)
Limits == 1..MaxLimit

\* continuedQuery(parameters, limit = 10)
defaultLimit == 10

\* The limit argument: a number, or left out.
LimitArgs == {Num(l) : l \in Limits} \cup {Undef}

limitOf(arg) == IF arg.t = "undefined" THEN defaultLimit ELSE arg.v

\* Object.assign(params, resCont): the continue parameter of the next GET.
assignCont(params, resCont) ==
    [k \in DOMAIN params \cup DOMAIN resCont |->
        IF k \in DOMAIN resCont THEN resCont[k] ELSE params[k]]

\* res?.continue, and nothing to assign when there is none.
resContOf(res) == IF Has(res, "continue") THEN res.v.continue ELSE <<>>

\* As reqContinues, were the limit counted from zero.
reqContinuesPastLimit(res, count, limit) == Has(res, "continue") /\ count <= limit

\* As reqContinues, were a response without continue followed up as well.
reqContinuesAlways(res, count, limit) == count < limit

\* resCont && count < limit
reqContinues(res, count, limit) == Has(res, "continue") /\ count < limit

\* The then of req: the response is pushed; the next GET, or the responses.
reqThen(task, tr, res) ==
    LET responses == Append(task.responses, res)
    IN IF reqContinues(res, task.count, task.limit)
       THEN [Issue([task EXCEPT !.io = <<>>, !.tr = tr], "GET", Undef,
                   assignCont(task.io[1].params, resContOf(res)))
             EXCEPT !.responses = responses, !.count = @ + 1]
       ELSE [Finish(task, tr, Resolved(Arr(responses))) EXCEPT !.responses = responses]

\* As reqCatch, were the error handed on to the caller.
reqCatchRejects(task, tr, err) ==
    [Finish(task, tr, Rejected(err)) EXCEPT !.responses = Append(task.responses, err)]

\* The catch of req: the error is pushed and the responses are returned.
reqCatch(task, tr, err) ==
    LET responses == Append(task.responses, err)
    IN [Finish(task, tr, Resolved(Arr(responses))) EXCEPT !.responses = responses]

\* The callbacks of req on the settled GET.
cqLand(task, tr) ==
    LET got == ajaxSettle(tr)
    IN IF got.st = "resolved" THEN reqThen(task, tr, got.val)
       ELSE reqCatch(task, tr, got.val)

ContinuedQueryCall(s, limit) ==
    /\ CanStart(s)
    /\ tasks' = [tasks EXCEPT ![s] =
           Issue([NoTask EXCEPT !.kind = "continuedQuery", !.pc = "cq",
                                !.count = 1, !.limit = limitOf(limit)], "GET", Undef, <<>>)]
    /\ aborts' = aborts + 1
    /\ budget' = [budget EXCEPT !.calls = @ + 1]
    /\ UNCHANGED <<config, impl, defaults, peers, tokens, hist>>

ContinuedQueryLand(s) ==
    /\ tasks[s].kind = "continuedQuery"
    /\ tasks[s].pc = "cq"
    /\ \E tr \in Arrivals(s) :
          LET after == cqLand(tasks[s], tr)
          IN /\ tasks' = [tasks EXCEPT ![s] = after]
             /\ aborts' = aborts + Len(after.io)
    /\ UNCHANGED <<config, impl, defaults, peers, tokens, hist, budget>>

(***************************************************************************)
(* massQuery.  parameters is the sequence of the object's own properties   *)
(* in key order, fields the string or the array passed as fields, apilimit *)
(* the value of options.apilimit.  The caller's parameters object and the  *)
(* object and the arrays massQuery works on are told apart: a write goes   *)
(* to the caller's object only through a reference to it.                  *)
(***************************************************************************)
apilimit == 50

\* The elements of a multi-value field, and the numbers whose decimal
\* strings are elements as well.
Elems == <<Str("1"), Str("2"), Str("C"), Str("D")>>

Batch == SubSeq(Elems, 1, MaxBatch)

Numbers == <<Num(1), Num(2)>>

Prop(key, val) == [k |-> key, v |-> val]

MQCall(parameters, fields, optLimit) ==
    [parameters |-> parameters, fields |-> fields, apilimit |-> optLimit]

\* The calls of massQuery that are made: one named field, with the default
\* limit and with a limit of two elements, with an empty array, with
\* a value that is no array, with a '**limit' parameter next to it; no field,
\* a field that is not a parameter, one of two fields that is not a
\* parameter; two named fields, with equal arrays, with arrays that are
\* equal as strings and a limit of one element, with arrays that differ in
\* an element or in length,
\* with one value that is no array.
MQCalls ==
    {MQCall(<<Prop("titles", Arr(Batch))>>, Str("titles"), l) : l \in {Undef, Num(1), Num(2)}}
        \cup {MQCall(<<Prop("titles", Arr(Batch)), Prop("bklimit", Num(10))>>, Arr(<<"titles">>), l) :
                 l \in {Undef, Num(2), Num(500)}}
        \cup {MQCall(<<Prop("titles", Arr(<<>>))>>, Str("titles"), Undef),
              MQCall(<<Prop("titles", Str("1|2"))>>, Arr(<<"titles">>), Undef),
              MQCall(<<Prop("titles", Arr(Batch))>>, Arr(<<"">>), Undef),
              MQCall(<<Prop("titles", Arr(Batch))>>, Str("pageids"), Undef),
              MQCall(<<Prop("titles", Arr(Batch))>>, Arr(<<"titles", "pageids">>), Undef),
              MQCall(<<Prop("titles", Arr(Batch)), Prop("pageids", Arr(Batch))>>,
                     Arr(<<"titles", "pageids">>), Undef),
              MQCall(<<Prop("pageids", Arr(Numbers)), Prop("revids", Arr(SubSeq(Elems, 1, 2)))>>,
                     Arr(<<"pageids", "revids">>), Num(1)),
              MQCall(<<Prop("titles", Arr(Batch)), Prop("pageids", Arr([Batch EXCEPT ![2] = Str("D")]))>>,
                     Arr(<<"titles", "pageids">>), Undef),
              MQCall(<<Prop("titles", Arr(Batch)), Prop("pageids", Arr(<<Str("1")>>))>>,
                     Arr(<<"titles", "pageids">>), Undef),
              MQCall(<<Prop("titles", Arr(Batch)), Prop("pageids", Num(1))>>,
                     Arr(<<"titles", "pageids">>), Undef)}

Includes(seq, x) == \E i \in DOMAIN seq : seq[i] = x

\* String(v)
String(v) == IF v.t = "number" THEN ToString(v.v) ELSE v.v

\* /limit$/.test(key), for the keys of the calls that are made
EndsInLimit(key) == key \in {"bklimit"}

\* As assignToEmpty, were parameters left to be the caller's object.
assignToNothing(parameters) == [ref |-> "caller", props |-> parameters]

\* parameters = Object.assign({}, parameters): an object of its own.
assignToEmpty(parameters) == [ref |-> "local", props |-> parameters]

\* As filterFields, were the falsy names kept.
filterNothing(fields) == IF fields.t = "array" THEN fields.v ELSE <<fields.v>>

\* (Array.isArray(fields) ? fields : [fields]).filter((v) => v)
filterFields(fields) ==
    SelectSeq(IF fields.t = "array" THEN fields.v ELSE <<fields.v>>, LAMBDA f : f # "")

\* val.map((v) => String(v)): an array of its own.
mapString(val) == [ref |-> "local", elems |-> [j \in DOMAIN val.v |-> String(val.v[j])]]

\* The reduce over Object.keys(parameters): the arrays of the named fields,
\* each with the key it was made of.
fieldArrays(parameters, fields) ==
    LET named == SelectSeq(parameters, LAMBDA p : Includes(fields, p.k) /\ p.v.t = "array")
    IN [i \in DOMAIN named |-> [k |-> named[i].k, a |-> mapString(named[i].v)]]

fieldValues(parameters, fields) ==
    [i \in DOMAIN fieldArrays(parameters, fields) |-> fieldArrays(parameters, fields)[i].a.elems]

nonArrayBatchParams(parameters, fields) ==
    LET named == SelectSeq(parameters, LAMBDA p : Includes(fields, p.k) /\ p.v.t # "array")
    IN [i \in DOMAIN named |-> named[i].k]

\* As setMax, were the limit not looked at.
setMaxAlways(parameters, fields, limit) ==
    [i \in DOMAIN parameters |->
        IF ~Includes(fields, parameters[i].k) /\ EndsInLimit(parameters[i].k)
        THEN Prop(parameters[i].k, Str("max"))
        ELSE parameters[i]]

\* The reduce, its other branch: a '**limit' parameter that is no named field
\* is set to 'max' when the limit is a default one.
setMax(parameters, fields, limit) ==
    [i \in DOMAIN parameters |->
        IF ~Includes(fields, parameters[i].k) /\ EndsInLimit(parameters[i].k)
              /\ limit \in {500, 50}
        THEN Prop(parameters[i].k, Str("max"))
        ELSE parameters[i]]

\* As identical, were the lengths compared and the elements not.
identicalLength(first, arr) == Len(first) = Len(arr)

\* fieldValues[0].length === arr.length && fieldValues[0].every((el, i) => arr[i] === el)
identical(first, arr) ==
    Len(first) = Len(arr) /\ \A i \in DOMAIN first : arr[i] = first[i]

\* The validation of massQuery: the code of the rejection, "" when it passes.
mqValidate(parameters, fields0) ==
    LET fields == filterFields(fields0)
        values == fieldValues(parameters, fields)
    IN IF Len(nonArrayBatchParams(parameters, fields)) > 0 THEN "nonarray-exception"
       ELSE IF Len(fields) = 0 THEN "emptyfield"
       ELSE IF Len(values) = 0 THEN "nomultivalue"
       ELSE IF Len(values) > 1 /\ ~\A i \in 2..Len(values) : identical(values[1], values[i])
       THEN "nonindentical-arrays"
       ELSE ""

\* nonArrayBatchParams.join(', '), each name in double quotes.
RECURSIVE joinQuoted(_)
joinQuoted(names) ==
    IF Len(names) = 0 THEN ""
    ELSE IF Len(names) = 1 THEN "\"" \o names[1] \o "\""
    ELSE "\"" \o names[1] \o "\", " \o joinQuoted(Tail(names))

mqInfo(code, parameters, fields) ==
    CASE code = "nonarray-exception" ->
             "The value(s) for " \o joinQuoted(nonArrayBatchParams(parameters, fields))
                 \o " must be arrays"
      [] code = "emptyfield" -> "The \"fields\" parameter is empty"
      [] code = "nomultivalue" -> "There's no multi-value field (check for typos in parameter keys?)"
      [] OTHER -> "The multi-value fields must all have the same array"

Min(a, b) == IF a < b THEN a ELSE b

\* As splice, were the whole array spliced off at once.
spliceWhole(batchArray, limit) == IF Len(batchArray) = 0 THEN <<>> ELSE <<batchArray>>

\* As splice, were the elements spliced off the end of the array.
RECURSIVE spliceFromEnd(_, _)
spliceFromEnd(batchArray, limit) ==
    IF Len(batchArray) = 0 THEN <<>>
    ELSE LET n == Min(limit, Len(batchArray))
         IN <<SubSeq(batchArray, Len(batchArray) - n + 1, Len(batchArray))>>
                \o spliceFromEnd(SubSeq(batchArray, 1, Len(batchArray) - n), limit)

\* while (batchArray.length) batchArray.splice(0, apilimit), for a positive
\* limit: the arrays spliced off.
RECURSIVE splice(_, _)
splice(batchArray, limit) ==
    IF Len(batchArray) = 0 THEN <<>>
    ELSE LET n == Min(limit, Len(batchArray))
         IN <<SubSeq(batchArray, 1, n)>> \o splice(SubSeq(batchArray, n + 1, Len(batchArray)), limit)

\* Array.prototype.join('|')
RECURSIVE join(_)
join(a) ==
    IF Len(a) = 0 THEN ""
    ELSE IF Len(a) = 1 THEN a[1]
    ELSE a[1] \o "|" \o join(Tail(a))

\* A value as preprocessParameters and URLSearchParams send it.
sent(v) == IF v.t = "array" THEN join([j \in DOMAIN v.v |-> String(v.v[j])]) ELSE String(v)

\* The parameters of one chunk POST: {...parameters}, and every named field
\* holds the chunk.
chunkParams(parameters, fields, multiValue) ==
    [k \in {parameters[i].k : i \in DOMAIN parameters} \cup {fields[i] : i \in DOMAIN fields} |->
        IF Includes(fields, k) THEN multiValue
        ELSE sent((CHOOSE p \in {parameters[i] : i \in DOMAIN parameters} : p.k = k).v)]

RECURSIVE mqIssue(_, _, _, _)
mqIssue(task, parameters, fields, chunks) ==
    IF Len(chunks) = 0 THEN task
    ELSE mqIssue(Issue(task, "POST", Undef, chunkParams(parameters, fields, join(Head(chunks)))),
                 parameters, fields, Tail(chunks))

\* What the caller's parameters object holds once massQuery has returned:
\* the writes to parameters reach it when parameters refers to it, and the
\* loop empties the array it splices.
callerAfter(parameters, local, first) ==
    LET props == IF local.ref = "caller" THEN local.props ELSE parameters
    IN [i \in DOMAIN props |->
          IF first.a.ref = "caller" /\ props[i].k = first.k
          THEN Prop(props[i].k, Arr(<<>>))
          ELSE props[i]]

\* massQuery up to its return.
massQuery(parameters, fields0, optLimit) ==
    LET limit == IF optLimit.t = "number" THEN optLimit.v ELSE apilimit
        fields == filterFields(fields0)
        code == mqValidate(parameters, fields0)
        local == [assignToEmpty(parameters) EXCEPT !.props = setMax(@, fields, limit)]
        written == IF local.ref = "caller" THEN local.props ELSE parameters
        t0 == [NoTask EXCEPT !.kind = "massQuery", !.pc = "chunks",
                             !.call = MQCall(parameters, fields0, optLimit),
                             !.caller = written]
    IN IF code # ""
       THEN Finish(t0, NoTr, Rejected(ErrV(code, mqInfo(code, parameters, fields))))
       ELSE LET first == fieldArrays(parameters, fields)[1]
                batchArray == first.a.elems
                issued == mqIssue(t0, local.props, fields, splice(batchArray, limit))
            IN IF Len(batchArray) = 0
               THEN Finish(t0, NoTr, Resolved(Arr(<<>>)))
               ELSE [issued EXCEPT !.responses = [i \in DOMAIN issued.io |-> Pending],
                                   !.caller = callerAfter(parameters, local, first)]

\* As chunkOutcome, were the error of a chunk left to reject its promise.
chunkOutcomeRejected(got) == got

\* this.post(params).then(res => res).catch(err => err)
chunkOutcome(got) == Resolved(got.val)

\* Promise.all(result): rejected with the first rejection there is, resolved
\* with the values once every promise is resolved.
promiseAll(res, outcome, results, allSettled) ==
    IF res.st # "pending" THEN res
    ELSE IF outcome.st = "rejected" THEN outcome
    ELSE IF allSettled THEN Resolved(Arr([j \in DOMAIN results |-> results[j].val]))
    ELSE res

\* As mqLand, were the outcomes kept in the order the POSTs settle in.
mqLandAsSettled(task, i, tr) ==
    LET outcome == chunkOutcome(ajaxSettle(tr))
        place == CHOOSE j \in DOMAIN task.responses :
                     /\ task.responses[j] = Pending
                     /\ \A k \in 1..(j - 1) : task.responses[k] # Pending
        landed == [task EXCEPT !.io[i].open = FALSE, !.tr = tr, !.responses[place] = outcome]
        allSettled == \A j \in DOMAIN landed.io : ~landed.io[j].open
        res == promiseAll(task.res, outcome, landed.responses, allSettled)
    IN IF allSettled
       THEN [Finish(landed, tr, res) EXCEPT !.responses = <<>>]
       ELSE [landed EXCEPT !.res = res]

\* The callbacks of chunk POST i, and Promise.all.
mqLand(task, i, tr) ==
    LET outcome == chunkOutcome(ajaxSettle(tr))
        landed == [task EXCEPT !.io[i].open = FALSE, !.tr = tr, !.responses[i] = outcome]
        allSettled == \A j \in DOMAIN landed.io : ~landed.io[j].open
        res == promiseAll(task.res, outcome, landed.responses, allSettled)
    IN IF allSettled
       THEN [Finish(landed, tr, res) EXCEPT !.responses = <<>>]
       ELSE [landed EXCEPT !.res = res]

\* massQuery reads nothing of the instance before it returns: what each call
\* that is made gives.
massQueryOf == [call \in MQCalls |-> massQuery(call.parameters, call.fields, call.apilimit)]

MassQueryCall(s, call) ==
    /\ CanStart(s)
    /\ LET after == massQueryOf[call]
       IN /\ tasks' = [tasks EXCEPT ![s] = after]
          /\ aborts' = aborts + Len(after.io)
    /\ budget' = [budget EXCEPT !.calls = @ + 1]
    /\ UNCHANGED <<config, impl, defaults, peers, tokens, hist>>

MassQueryLand(s, i) ==
    /\ tasks[s].kind = "massQuery"
    /\ tasks[s].pc = "chunks"
    /\ \E tr \in ArrivalsAt(s, i) :
           tasks' = [tasks EXCEPT ![s] = mqLand(tasks[s], i, tr)]
    /\ UNCHANGED <<config, impl, defaults, peers, tokens, aborts, hist, budget>>

(***************************************************************************)
(* massQuery with an apilimit that is a number and not positive:           *)
(* batchArray.splice(0, apilimit) splices nothing off and returns the      *)
(* empty array, batchArray.length stays what it was, and every turn of the *)
(* while loop makes one more POST with the empty multiValue.  The call     *)
(* does not return; the POSTs past the first MaxSpin are not told apart.   *)
(* SpecMassLive is massQuery alone, each request in flight settling in     *)
(* the end and the loop turning as long as it can.                         *)
(***************************************************************************)
MaxSpin == 3

MQLoopCalls ==
    {MQCall(<<Prop("titles", Arr(Batch))>>, Str("titles"), l) : l \in {Num(0), Num(-1)}}

\* One turn of the loop: const multiValue = batchArray.splice(0,
\* apilimit).join('|'), the empty string; result.push(this.post(params)...).
mqTurn(task) ==
    [Issue(task, "POST", Undef,
           chunkParams(task.call.parameters, filterFields(task.call.fields), join(<<>>)))
     EXCEPT !.responses = Append(@, Pending)]

\* massQuery up to the first POST of the loop it does not leave.
MassQueryLoopCall(s, call) ==
    /\ CanStart(s)
    /\ mqValidate(call.parameters, call.fields) = ""
    /\ call.apilimit.t = "number" /\ call.apilimit.v <= 0
    /\ tasks' = [tasks EXCEPT ![s] =
           mqTurn([NoTask EXCEPT !.kind = "massQuery", !.pc = "loop", !.call = call,
                                 !.caller = call.parameters])]
    /\ aborts' = aborts + 1
    /\ budget' = [budget EXCEPT !.calls = @ + 1]
    /\ UNCHANGED <<config, impl, defaults, peers, tokens, hist>>

\* The next turn of the loop.
MassQueryLoop(s) ==
    /\ tasks[s].kind = "massQuery"
    /\ tasks[s].pc = "loop"
    /\ IF Len(tasks[s].io) < MaxSpin
       THEN /\ tasks' = [tasks EXCEPT ![s] = mqTurn(@)]
            /\ aborts' = aborts + 1
       ELSE UNCHANGED <<tasks, aborts>>
    /\ UNCHANGED <<config, impl, defaults, peers, tokens, hist, budget>>

NextMass ==
    \/ \E s \in Slots, call \in MQCalls : MassQueryCall(s, call)
    \/ \E s \in Slots, i \in 1..MaxBatch : MassQueryLand(s, i)
    \/ \E s \in Slots, call \in MQLoopCalls : MassQueryLoopCall(s, call)
    \/ \E s \in Slots : MassQueryLoop(s)

SpecMassLive ==
    /\ Init
    /\ [][NextMass]_vars
    /\ \A s \in Slots : WF_vars(\E i \in 1..MaxBatch : MassQueryLand(s, i))
    /\ \A s \in Slots : WF_vars(MassQueryLoop(s))

Next ==
    \/ \E s \in Slots, type \in TypeArgs : GetTokenCall(s, type)
    \/ \E s \in Slots : GetTokenLand(s)
    \/ \E type \in TypeArgs : BadTokenCall(type)
    \/ \E s \in Slots, type \in TypeArgs : PostWithTokenCall(s, type)
    \/ \E s \in Slots : PWTFirstToken(s)
    \/ \E s \in Slots : PWTFirstPost(s)
    \/ \E s \in Slots : PWTRetryToken(s)
    \/ \E s \in Slots : PWTRetryPost(s)
    \/ \E s \in Slots, limit \in LimitArgs : ContinuedQueryCall(s, limit)
    \/ \E s \in Slots : ContinuedQueryLand(s)
    \/ \E s \in Slots, call \in MQCalls : MassQueryCall(s, call)
    \/ \E s \in Slots, i \in 1..MaxBatch : MassQueryLand(s, i)
    \/ \E s \in Slots, method \in {"GET", "POST"} : AjaxCall(s, method)
    \/ \E s \in Slots : AjaxLand(s)
    \/ Abort

Spec == Init /\ [][Next]_vars

\* The class MWCC of src/mwcc.ts: it has no continuedQuery and no massQuery.
\* Its retry POST is never in flight: the first POST leaves a string in
\* options.data, and ajax throws on it before the second request is issued.
NextMWCC ==
    \/ \E s \in Slots, type \in TypeArgs : GetTokenCall(s, type)
    \/ \E s \in Slots : GetTokenLand(s)
    \/ \E type \in TypeArgs : BadTokenCall(type)
    \/ \E s \in Slots, type \in TypeArgs : PostWithTokenCall(s, type)
    \/ \E s \in Slots : PWTFirstToken(s)
    \/ \E s \in Slots : PWTFirstPost(s)
    \/ \E s \in Slots : PWTRetryToken(s)
    \/ \E s \in Slots, method \in {"GET", "POST"} : AjaxCall(s, method)
    \/ \E s \in Slots : AjaxLand(s)
    \/ Abort

SpecMWCC == InitMWCC /\ [][NextMWCC]_vars

(***************************************************************************)
(* Instances side by side.  SpecPeers makes NumInstances instances of one  *)
(* class, MWCCStatic or Api (src/Api.ts), and drives each with getToken,   *)
(* badToken, get, abort and postWithToken.  MWCCStatic                     *)
(* keeps its cache in this.tokens; Api keeps the caches of all instances   *)
(* in the array tokens of its module, each instance reading and writing    *)
(* the element at this.index.  Both keep their controllers in this.aborts; *)
(* a controller is known by the instance whose ajax made it and by its     *)
(* number among the controllers of that instance.  Every instance runs one *)
(* call at a time.                                                         *)
(***************************************************************************)
NumInstances == 2
MaxPeerCalls == 2

Instances == 1..NumInstances

Classes == {"MWCCStatic", "Api"}

Controller(i, n) == [owner |-> i, n |-> n]

\* The token types the calls of the instances pass.
PeerTypes == {"csrf", "watch"}

\* An instance: this.index (Api), this.tokens (MWCCStatic), this.aborts, the
\* call it runs or has last run, the controllers of the requests that call
\* has in flight, and how many controllers its ajax has made.
NewInstance(index) ==
    [index |-> index, tokens |-> <<>>, aborts |-> <<>>, task |-> NoTask, ctrl |-> <<>>,
     made |-> 0]

\* The module before any instance is made: let instanceIndex = 0 and the
\* empty array tokens; no call made, nobody has acted.
NoWorld ==
    [instanceIndex |-> 0, tokens |-> <<>>, inst |-> <<>>,
     calls |-> 0, bad |-> 0, abort |-> 0, actor |-> 0]

\* a[index] = v on an array that has index elements or more.
arraySet(a, index, v) ==
    IF index + 1 \in DOMAIN a THEN [a EXCEPT ![index + 1] = v] ELSE Append(a, v)

\* As construct, were instanceIndex read and not incremented.
constructSameIndex(class, p) ==
    IF class = "Api"
    THEN [p EXCEPT !.inst = Append(@, NewInstance(p.instanceIndex)),
                   !.tokens = arraySet(@, p.instanceIndex, Null)]
    ELSE [p EXCEPT !.inst = Append(@, NewInstance(0))]

\* The constructor.  Api: this.index = (instanceIndex++); tokens[this.index]
\* = null; this.aborts = [].  MWCCStatic: the fields tokens = {} and
\* aborts = [].
construct(class, p) ==
    IF class = "Api"
    THEN [p EXCEPT !.inst = Append(@, NewInstance(p.instanceIndex)),
                   !.instanceIndex = @ + 1,
                   !.tokens = arraySet(@, p.instanceIndex, Null)]
    ELSE [p EXCEPT !.inst = Append(@, NewInstance(0))]

RECURSIVE constructAll(_, _, _)
constructAll(class, p, n) ==
    IF n = 0 THEN p ELSE construct(class, constructAll(class, p, n - 1))

InitPeers ==
    \E class \in Classes :
        /\ Constructed(class)
        /\ defaults = <<>>
        /\ peers = constructAll(class, NoWorld, NumInstances)

\* The element of the array of Api as the cache getToken reads:
\* element && element[tokenName].
apiCache(element) ==
    IF element.t = "null" THEN <<>>
    ELSE [n \in {m \in DOMAIN element.v : element.v[m].t = "string"} |-> element.v[n].v]

\* tokens[this.index] = resToken, when the response has tokens.
apiStore(element, got) ==
    IF got.st = "resolved" /\ Truthy(queryTokens(got.val))
    THEN Obj([n \in DOMAIN queryTokens(got.val).v |-> Str(queryTokens(got.val).v[n])])
    ELSE element

\* Api.badToken: tokens[index][tokenName] = null, when there is a token.
apiBadToken(element, tokenType) ==
    IF Cached(apiCache(element), TokenName(tokenType))
    THEN Obj([element.v EXCEPT ![TokenName(tokenType)] = Null])
    ELSE element

\* The cache instance i reads.
peerCache(class, p, i) ==
    IF class = "Api" THEN apiCache(p.tokens[p.inst[i].index + 1]) ELSE p.inst[i].tokens

\* The callbacks of getToken have run in instance i on the settled fetch.
peerStore(class, p, i, got) ==
    IF class = "Api"
    THEN [p EXCEPT !.tokens[p.inst[i].index + 1] = apiStore(@, got)]
    ELSE [p EXCEPT !.inst[i].tokens = storeTokens(@, got)]

peerBadToken(class, p, i, tokenType) ==
    IF class = "Api"
    THEN [p EXCEPT !.tokens[p.inst[i].index + 1] = apiBadToken(@, tokenType)]
    ELSE [p EXCEPT !.inst[i].tokens = badToken(@, tokenType)]

\* As pushController, were this.aborts one array for all instances.
pushControllerShared(p, i, c) == [p EXCEPT !.inst[1].aborts = Append(@, c)]

\* this.aborts.push(controller) in the ajax of instance i.
pushController(p, i, c) == [p EXCEPT !.inst[i].aborts = Append(@, c)]

\* Instance i has run a stretch of a call: the call afterwards, and a
\* controller for the request the stretch has issued, if it has.
peerRan(p, i, before, after) ==
    LET fresh == after.issued > before.issued
        c == Controller(i, p.inst[i].made + 1)
        q == [p EXCEPT !.inst[i].task = after,
                       !.inst[i].ctrl = IF fresh THEN <<c>>
                                        ELSE IF after.io = <<>> THEN <<>> ELSE @,
                       !.inst[i].made = IF fresh THEN @ + 1 ELSE @,
                       !.actor = i]
    IN IF fresh THEN pushController(q, i, c) ELSE q

PeerIdle(i) ==
    /\ peers.inst[i].task.kind = "none" \/ peers.inst[i].task.pc \in {"done", "hung"}
    /\ peers.calls < MaxPeerCalls

PeerCalled(p) == [p EXCEPT !.calls = @ + 1]

PeerGetTokenCall(i, type) ==
    /\ PeerIdle(i)
    /\ peers' = PeerCalled(peerRan(peers, i, NoTask, getToken(peerCache(impl, peers, i), type)))
    /\ UNCHANGED <<config, impl, defaults, tokens, aborts, tasks, hist, budget>>

\* What the server answers the instances with: a token set out of two to a
\* token fetch, a response or 'badtoken' to a POST, a response to a query.
PeerBodies(purpose) ==
    CASE purpose = "tokens" ->
             {[batchcomplete |-> TRUE, query |-> [tokens |-> ts]] :
                 ts \in {[csrftoken |-> "a"], [csrftoken |-> "b", watchtoken |-> "a"]}}
      [] purpose = "post" ->
             {[error |-> Obj([code |-> "badtoken", info |-> "from the API"])], PlainBody}
      [] OTHER -> {PlainBody}

\* What axios.request may settle the request of instance i with.
PeerArrivals(i) ==
    LET task == peers.inst[i].task IN
    IF task.io # <<>> /\ task.io[1].open
    THEN IF task.io[1].sig THEN {Canceled}
         ELSE {Fulfilled(Obj([data |-> Obj(b)])) : b \in PeerBodies(Purpose(task))}
    ELSE {}

PeerGetTokenLand(i) ==
    /\ peers.inst[i].task.kind = "getToken"
    /\ peers.inst[i].task.pc = "fetch"
    /\ \E tr \in PeerArrivals(i) :
          LET got == ajaxSettle(tr)
              task == peers.inst[i].task
          IN peers' = peerRan(peerStore(impl, peers, i, got), i, task,
                              Finish(task, tr, getTokenSettle(task.arg, got)))
    /\ UNCHANGED <<config, impl, defaults, tokens, aborts, tasks, hist, budget>>

PeerBadTokenCall(i, type) ==
    /\ peers.bad < MaxBadToken
    /\ peers' = [peerBadToken(impl, peers, i, type) EXCEPT !.bad = @ + 1, !.actor = i]
    /\ UNCHANGED <<config, impl, defaults, tokens, aborts, tasks, hist, budget>>

\* get(parameters) on instance i.
PeerAjaxCall(i) ==
    /\ PeerIdle(i)
    /\ peers' = PeerCalled(peerRan(peers, i, NoTask,
                    Issue([NoTask EXCEPT !.kind = "ajax", !.pc = "req"], "GET", Undef, <<>>)))
    /\ UNCHANGED <<config, impl, defaults, tokens, aborts, tasks, hist, budget>>

PeerAjaxLand(i) ==
    /\ peers.inst[i].task.kind = "ajax"
    /\ peers.inst[i].task.pc = "req"
    /\ \E tr \in PeerArrivals(i) :
          peers' = peerRan(peers, i, peers.inst[i].task,
                           Finish(peers.inst[i].task, tr, ajaxSettle(tr)))
    /\ UNCHANGED <<config, impl, defaults, tokens, aborts, tasks, hist, budget>>

\* postWithToken on instance i.
PeerPostWithTokenCall(i, type) ==
    /\ PeerIdle(i)
    /\ peers' = PeerCalled(peerRan(peers, i, NoTask,
                    pwtGetToken(impl, [NoTask EXCEPT !.kind = "postWithToken", !.arg = type],
                                peerCache(impl, peers, i), "fetch")))
    /\ UNCHANGED <<config, impl, defaults, tokens, aborts, tasks, hist, budget>>

PeerTokenLand(i) ==
    /\ peers.inst[i].task.kind = "postWithToken"
    /\ peers.inst[i].task.pc \in {"fetch", "retryfetch"}
    /\ \E tr \in PeerArrivals(i) :
          LET task == peers.inst[i].task
          IN peers' = peerRan(peerStore(impl, peers, i, ajaxSettle(tr)), i, task,
                              pwtTokenLand(impl, task, tr))
    /\ UNCHANGED <<config, impl, defaults, tokens, aborts, tasks, hist, budget>>

PeerPostLand(i) ==
    /\ peers.inst[i].task.kind = "postWithToken"
    /\ peers.inst[i].task.pc \in {"post", "retrypost"}
    /\ \E tr \in PeerArrivals(i) :
          LET task == peers.inst[i].task
              cache == peerCache(impl, peers, i)
              after == pwtPostLand(impl, task, cache, tr)
              cleared == IF after.tokens # cache THEN peerBadToken(impl, peers, i, task.arg)
                         ELSE peers
          IN peers' = peerRan(cleared, i, task, after.task)
    /\ UNCHANGED <<config, impl, defaults, tokens, aborts, tasks, hist, budget>>

\* abort() on instance i: every controller of this.aborts is signalled, the
\* request it was made for, if in flight, is cancelled; this.aborts = [].
PeerAbort(i) ==
    /\ peers.abort < MaxAbort
    /\ LET signalled == {peers.inst[i].aborts[k] : k \in DOMAIN peers.inst[i].aborts}
           hit(j) == /\ peers.inst[j].task.io # <<>>
                     /\ \E k \in DOMAIN peers.inst[j].ctrl : peers.inst[j].ctrl[k] \in signalled
       IN peers' = [peers EXCEPT
              !.inst = [j \in DOMAIN @ |->
                          [@[j] EXCEPT
                              !.task.io = IF hit(j)
                                          THEN [k \in DOMAIN @ |-> [@[k] EXCEPT !.sig = @ \/ peers.inst[j].task.io[k].open]]
                                          ELSE @,
                              !.aborts = IF j = i THEN <<>> ELSE @]],
              !.abort = @ + 1,
              !.actor = i]
    /\ UNCHANGED <<config, impl, defaults, tokens, aborts, tasks, hist, budget>>

NextPeers ==
    \/ \E i \in Instances, type \in PeerTypes : PeerGetTokenCall(i, type)
    \/ \E i \in Instances : PeerGetTokenLand(i)
    \/ \E i \in Instances, type \in PeerTypes : PeerBadTokenCall(i, type)
    \/ \E i \in Instances : PeerAjaxCall(i)
    \/ \E i \in Instances : PeerAjaxLand(i)
    \/ \E i \in Instances, type \in PeerTypes : PeerPostWithTokenCall(i, type)
    \/ \E i \in Instances : PeerTokenLand(i)
    \/ \E i \in Instances : PeerPostLand(i)
    \/ \E i \in Instances : PeerAbort(i)

SpecPeers == InitPeers /\ [][NextPeers]_vars

(***************************************************************************)
(* postWithToken of the classes MWCC and Api alone, every request in       *)
(* flight settling in the end: axios.request settles each promise it       *)
(* returns, with a response, an error or, after abort(), a cancellation.   *)
(***************************************************************************)
InitSettle ==
    \E class \in {"MWCC", "Api"} :
        /\ Constructed(class)
        /\ defaults = <<>>
        /\ peers = constructAll(class, NoWorld, NumInstances)

NextSettle ==
    \/ \E i \in Instances, type \in PeerTypes : PeerPostWithTokenCall(i, type)
    \/ \E i \in Instances : PeerTokenLand(i)
    \/ \E i \in Instances : PeerPostLand(i)
    \/ \E i \in Instances : PeerAbort(i)

SpecSettle ==
    /\ InitSettle
    /\ [][NextSettle]_vars
    /\ WF_vars(\E i \in Instances : PeerTokenLand(i) \/ PeerPostLand(i))

(***************************************************************************)
(* What ajax sends.  SpecAjax is an instance of MWCCStatic made with       *)
(* options that may hold params, driven by get, post and newSection.  An   *)
(* object whose key order matters is the sequence of its properties, in    *)
(* the order the keys were added.  The payload of a request is the object  *)
(* ajax leaves in options.params (GET), or the entries of the              *)
(* URLSearchParams it leaves in options.data (POST), when it calls         *)
(* this.axios.request(options).                                            *)
(***************************************************************************)
MaxPayloadCalls == 1

hasKey(o, key) == \E i \in DOMAIN o : o[i].k = key

\* o[key], of a key that o has
valueAt(o, key) == o[CHOOSE i \in DOMAIN o : o[i].k = key].v

\* delete o[key]
deleteKey(o, key) == SelectSeq(o, LAMBDA e : e.k # key)

\* o[key] = val: a key that o has keeps its place, a new key comes last.
setKey(o, key, val) ==
    IF hasKey(o, key)
    THEN [i \in DOMAIN o |-> IF o[i].k = key THEN Prop(key, val) ELSE o[i]]
    ELSE Append(o, Prop(key, val))

\* Object.assign(target, source)
RECURSIVE assign(_, _)
assign(target, source) ==
    IF Len(source) = 0 THEN target
    ELSE assign(setKey(target, Head(source).k, Head(source).v), Tail(source))

\* As preprocessParameters, were every falsy value deleted.
preprocessFalsy(parameters) ==
    LET kept == SelectSeq(parameters, LAMBDA e : e.v.t = "array" \/ Truthy(e.v))
    IN [i \in DOMAIN kept |->
           IF kept[i].v.t = "array"
           THEN Prop(kept[i].k, Str(join([j \in DOMAIN kept[i].v.v |-> String(kept[i].v.v[j])])))
           ELSE kept[i]]

\* preprocessParameters, on the object it changes in place: an array is
\* replaced by val.join('|'), a key whose value is false or undefined is
\* deleted.
preprocessParameters(parameters) ==
    LET kept == SelectSeq(parameters, LAMBDA e : ~(e.v = Bool(FALSE) \/ e.v = Undef))
    IN [i \in DOMAIN kept |->
           IF kept[i].v.t = "array"
           THEN Prop(kept[i].k, Str(join([j \in DOMAIN kept[i].v.v |-> String(kept[i].v.v[j])])))
           ELSE kept[i]]

\* let token = ''; if (typeof parameters.token === 'string') token =
\* parameters.token
takeToken(parameters) ==
    IF hasKey(parameters, "token") /\ valueAt(parameters, "token").t = "string"
    THEN valueAt(parameters, "token")
    ELSE Str("")

\* As ajaxCleaned, were the token left in the parameters.
ajaxCleanedKeepsToken(parameters) == preprocessParameters(parameters)

\* ... delete parameters.token; this.preprocessParameters(parameters): the
\* caller's object when ajax has returned.
ajaxCleaned(parameters) ==
    preprocessParameters(
        IF hasKey(parameters, "token") /\ valueAt(parameters, "token").t = "string"
        THEN deleteKey(parameters, "token")
        ELSE parameters)

\* const defaults = {action: 'query', format: 'json', formatversion: '2'}
ajaxDefaults ==
    <<Prop("action", Str("query")), Prop("format", Str("json")), Prop("formatversion", Str("2"))>>

\* As mergeParams, were the defaults of ajax assigned before the params of
\* the Axios instance and the caller's parameters before both.
mergeParamsFirst(own, instanceParams, parameters) ==
    assign(assign(assign(own, parameters), ajaxDefaults), instanceParams)

\* Object.assign(options.params, this.axios.defaults.params, defaults,
\* parameters), and the same on options.data || {} with
\* this.axios.defaults.data.
mergeParams(own, instanceParams, parameters) ==
    assign(assign(assign(own, instanceParams), ajaxDefaults), parameters)

\* if (token) <object>.token = token
putToken(o, token) == IF Truthy(token) THEN setKey(o, "token", token) ELSE o

\* new URLSearchParams(data): every value becomes its string.
toUSVString(v) ==
    CASE v.t = "string" -> v.v
      [] v.t = "number" -> ToString(v.v)
      [] v.t = "boolean" -> IF v.v THEN "true" ELSE "false"
      [] v.t = "null" -> "null"
      [] OTHER -> "undefined"

URLSearchParams(data) == [i \in DOMAIN data |-> Prop(data[i].k, Str(toUSVString(data[i].v)))]

\* The payload of the request ajax(parameters, options) issues: own is
\* options.params of a GET and options.data of a POST, instanceParams is
\* this.axios.defaults.params; the instances made here have no
\* this.axios.defaults.data.
ajaxPayload(method, own, instanceParams, parameters) ==
    LET token == takeToken(parameters)
        cleaned == ajaxCleaned(parameters)
    IN IF method = "GET"
       THEN putToken(mergeParams(own, instanceParams, cleaned), token)
       ELSE URLSearchParams(putToken(mergeParams(own, <<>>, cleaned), token))

\* The params of the options the instance is made with.
ConstructorParams ==
    {<<>>, <<Prop("formatversion", Undef)>>, <<Prop("formatversion", Bool(FALSE))>>,
     <<Prop("uselang", Str("en"))>>}

InitAjax == Constructed("MWCCStatic") /\ defaults \in ConstructorParams /\ peers = NoPeers

\* A key left out, or given one of the values.
OneOf(key, vals) == {<<>>} \cup {<<Prop(key, v)>> : v \in vals}

\* Parameters of an edit with a value of every kind.
EditParameters ==
    <<Prop("titles", Arr(<<Str("A"), Num(2)>>)), Prop("minor", Bool(FALSE)),
      Prop("bot", Bool(TRUE)), Prop("section", Num(0)), Prop("summary", Str("")),
      Prop("tags", Null), Prop("watch", Undef)>>

\* The parameters the calls pass: a token that is a string, the empty
\* string, a number or absent, before or after a parameter that holds an
\* array, a string, a number, a boolean, null or undefined; parameters
\* that name the keys of the defaults; the parameters of an edit.
AjaxParameters ==
    LET tokens0 == OneOf("token", {Str("t"), Str(""), Num(5)})
        titles == OneOf("titles", {Arr(<<Str("A"), Num(2)>>), Arr(<<>>), Str(""), Num(0),
                                   Bool(TRUE), Bool(FALSE), Null, Undef})
        actions == OneOf("action", {Str("edit"), Bool(FALSE), Arr(<<Str("edit")>>)})
        versions == OneOf("formatversion", {Str("1"), Undef})
    IN {k \o t : k \in tokens0, t \in titles} \cup {t \o k : k \in tokens0, t \in titles}
           \cup {a \o k \o v : a \in actions, k \in tokens0, v \in versions}
           \cup {EditParameters}

\* The options.params or options.data the calls pass: none, a key of their
\* own, a token.
AjaxOwn == {<<>>, <<Prop("origin", Str("*"))>>, <<Prop("token", Str("o"))>>}

\* A call of SpecAjax may start in slot s.
CanSend(s) == CanStart(s) /\ budget.calls < MaxPayloadCalls

\* get(parameters, options) and post(parameters, options), up to the request.
AjaxPayloadCall(s, method, own, parameters) ==
    /\ CanSend(s)
    /\ tasks' = [tasks EXCEPT ![s] =
           Issue([NoTask EXCEPT !.kind = "ajax", !.pc = "req",
                                !.call = [method |-> method, own |-> own,
                                          parameters |-> parameters],
                                !.caller = ajaxCleaned(parameters)],
                 method, takeToken(parameters),
                 ajaxPayload(method, own, defaults, parameters))]
    /\ aborts' = aborts + 1
    /\ budget' = [budget EXCEPT !.calls = @ + 1]
    /\ UNCHANGED <<config, impl, defaults, peers, tokens, hist>>

\* The object newSection makes for postWithEditToken.
newSectionParams(title, header, content) ==
    <<Prop("action", Str("edit")), Prop("section", Str("new")), Prop("title", Str(title)),
      Prop("sectiontitle", Str(header)), Prop("text", Str(content))>>

\* The additionalParams the calls of newSection pass.
AdditionalParams ==
    {<<>>, <<Prop("summary", Str("s"))>>,
     <<Prop("summary", Str("s")), Prop("minor", Bool(TRUE))>>}

\* newSection(title, header, content, additionalParams):
\* this.postWithEditToken(Object.assign({...}), additionalParams), that is
\* postWithToken('csrf', params, options) with additionalParams for options.
NewSectionCall(s, additionalParams) ==
    /\ CanSend(s)
    /\ tasks' = [tasks EXCEPT ![s] =
           pwtGetToken(impl,
                       [NoTask EXCEPT !.kind = "postWithToken", !.arg = "csrf",
                                      !.call = [method |-> "newSection",
                                                parameters |-> newSectionParams("T", "H", "C"),
                                                options |-> additionalParams,
                                                additionalParams |-> additionalParams]],
                       tokens, "fetch")]
    /\ aborts' = aborts + 1
    /\ hist' = HistGet(hist, TokenName("csrf"))
    /\ budget' = [budget EXCEPT !.calls = @ + 1]
    /\ UNCHANGED <<config, impl, defaults, peers, tokens>>

\* options.data as the POST of postWithToken finds it: a key the options
\* object holds under 'data', or nothing.
optionsOwn(options) == IF hasKey(options, "data") THEN valueAt(options, "data") ELSE <<>>

\* The body of the POST that the call of newSection has in flight:
\* params.token = token; this.post(params, options).
newSectionPayload(task) ==
    ajaxPayload("POST", optionsOwn(task.call.options), defaults,
                setKey(task.call.parameters, "token", task.io[1].token))

\* The parameters the calls of continuedQuery pass: a list query, with a
\* continue parameter of an earlier answer, with an array, with a token.
ContParameters ==
    {<<Prop("list", Str("allpages"))>>,
     <<Prop("list", Str("allpages")), Prop("apcontinue", Str("A"))>>,
     <<Prop("list", Arr(<<Str("allpages"), Str("alllinks")>>)), Prop("rawcontinue", Bool(FALSE))>>,
     <<Prop("list", Str("allpages")), Prop("token", Str("t"))>>}

\* The limits the calls of continuedQuery pass.
ContLimits == {Num(3)}

\* The continue objects of the server and the keys they have, in their
\* order.
ContKeys == <<"continue", "apcontinue", "alcontinue">>

ContObjects ==
    {[continue |-> "-||", apcontinue |-> "B"], [continue |-> "-||", apcontinue |-> "C"],
     [continue |-> "-||", alcontinue |-> "D"]}

\* The properties of a continue object, as Object.assign reads them.
entries(resCont) ==
    LET keys == SelectSeq(ContKeys, LAMBDA key : key \in DOMAIN resCont)
    IN [i \in DOMAIN keys |-> Prop(keys[i], Str(resCont[keys[i]]))]

\* What the transport settles a GET of continuedQuery with.
ContArrivals(s) ==
    IF 1 \in Outstanding(s)
    THEN {NetworkError, Fulfilled(Obj([data |-> Obj(PlainBody)]))}
             \cup {Fulfilled(Obj([data |-> Obj([batchcomplete |-> FALSE, continue |-> c])])) :
                      c \in ContObjects}
    ELSE {}

\* _this.get(params): ajax takes the token out of params, cleans params and
\* issues the GET; params is the object of the caller of continuedQuery.
reqGet(task, params) ==
    Issue([task EXCEPT !.io = <<>>, !.caller = ajaxCleaned(params)],
          "GET", takeToken(params), ajaxPayload("GET", <<>>, defaults, params))

\* req(parameters, 1)
ContinuedCall(s, parameters, limit) ==
    /\ CanSend(s)
    /\ tasks' = [tasks EXCEPT ![s] =
           reqGet([NoTask EXCEPT !.kind = "continuedQuery", !.pc = "cq", !.count = 1,
                                 !.limit = limitOf(limit),
                                 !.call = [method |-> "continuedQuery", own |-> <<>>,
                                           parameters |-> parameters]],
                  parameters)]
    /\ aborts' = aborts + 1
    /\ budget' = [budget EXCEPT !.calls = @ + 1]
    /\ UNCHANGED <<config, impl, defaults, peers, tokens, hist>>

\* The callbacks of req on the settled GET: the then pushes the response and
\* calls req(Object.assign(params, resCont), count + 1), or returns the
\* responses; the catch pushes the error.
reqLand(task, tr) ==
    LET got == ajaxSettle(tr)
        responses == Append(task.responses, got.val)
    IN IF got.st = "rejected" THEN reqCatch(task, tr, got.val)
       ELSE IF reqContinues(got.val, task.count, task.limit)
       THEN [reqGet([task EXCEPT !.tr = tr], assign(task.caller, entries(resContOf(got.val))))
             EXCEPT !.responses = responses, !.count = @ + 1]
       ELSE [Finish(task, tr, Resolved(Arr(responses))) EXCEPT !.responses = responses]

ContinuedLand(s) ==
    /\ tasks[s].kind = "continuedQuery"
    /\ tasks[s].pc = "cq"
    /\ \E tr \in ContArrivals(s) :
          LET after == reqLand(tasks[s], tr)
          IN /\ tasks' = [tasks EXCEPT ![s] = after]
             /\ aborts' = aborts + Len(after.io)
    /\ UNCHANGED <<config, impl, defaults, peers, tokens, hist, budget>>

(***************************************************************************)
(* edit(title, transform): the GET of the latest revision, the checks on   *)
(* its answer, the transform callback and postWithEditToken.  The answers  *)
(* are those of formatversion 2; a revision's slots, when it has them,     *)
(* hold the main slot (ApiResponseQueryPagesRevisions).                    *)
(***************************************************************************)
\* The revisions the server answers with: none, one without a timestamp,
\* without slots, with a hidden text, with an empty text, with a text.
ServerRevisions ==
    {<<>>,
     <<[slots |-> [main |-> [content |-> "C"]]]>>,
     <<[timestamp |-> "T1"]>>,
     <<[timestamp |-> "T1", slots |-> [main |-> [texthidden |-> TRUE]]]>>,
     <<[timestamp |-> "T1", slots |-> [main |-> [content |-> ""]]]>>,
     <<[timestamp |-> "T1", slots |-> [main |-> [content |-> "C"]]]>>}

\* The pages of the answers: none, an invalid title, a missing page, a page
\* without the revisions property, a page with revisions.
ServerPages ==
    {<<>>,
     <<[title |-> "<", invalidreason |-> "The title contains invalid characters", invalid |-> TRUE]>>,
     <<[title |-> "T", missing |-> TRUE]>>,
     <<[title |-> "T", pageid |-> 1]>>}
        \cup {<<[title |-> "T", pageid |-> 1, revisions |-> r]>> : r \in ServerRevisions}

\* What the server answers the GET of edit with.
RevBodies ==
    ErrorBodies \cup {PlainBody, [batchcomplete |-> TRUE, query |-> [normalized |-> <<>>]]}
        \cup {[batchcomplete |-> TRUE, curtimestamp |-> "T2", query |-> [pages |-> p]] :
                 p \in ServerPages}

EditArrivals(s) ==
    IF 1 \in Outstanding(s)
    THEN {NetworkError} \cup {Fulfilled(Obj([data |-> Obj(b)])) : b \in RevBodies}
    ELSE {}

\* What the transform callbacks return or settle the promise they return
\* with: a text, a number, null, parameters, parameters with a
\* basetimestamp and a nocreate of their own; or they throw.
TransformResults ==
    {Resolved(Str("new")), Resolved(Num(5)), Resolved(Null),
     Resolved(Obj(<<Prop("text", Str("new")), Prop("summary", Str("s"))>>)),
     Resolved(Obj(<<Prop("text", Str("new")), Prop("basetimestamp", Str("T0")),
                    Prop("nocreate", Bool(FALSE))>>)),
     Rejected(Str("no"))}

\* The parameters of the GET of edit.
revParams(title) ==
    <<Prop("prop", Str("revisions")), Prop("rvprop", Str("content|timestamp")),
      Prop("rvslots", Str("main")), Prop("titles", Str(title)),
      Prop("curtimestamp", Bool(TRUE))>>

okButEmpty == ErrV("ok-but-empty", "OK response but empty result")

\* As editCheck, were a missing page let through.
editCheckCreates(resRev) ==
    LET b == resRev.v
        resPages == IF "query" \in DOMAIN b /\ "pages" \in DOMAIN b.query
                    THEN <<b.query.pages>> ELSE <<>>
        page == resPages[1][1]
        revision == IF "revisions" \in DOMAIN page /\ Len(page.revisions) > 0
                    THEN <<page.revisions[1]>> ELSE <<>>
        basetimestamp == IF revision # <<>> /\ "timestamp" \in DOMAIN revision[1]
                         THEN Str(revision[1].timestamp) ELSE Undef
        content == IF revision # <<>> /\ "slots" \in DOMAIN revision[1]
                      /\ "content" \in DOMAIN revision[1].slots.main
                   THEN Str(revision[1].slots.main.content) ELSE Undef
    IN IF Truthy(Get(resRev, "error")) THEN Rejected(resRev)
       ELSE IF resPages = <<>> \/ Len(resPages[1]) = 0 THEN Rejected(okButEmpty)
       ELSE IF "invalidreason" \in DOMAIN page /\ page.invalidreason # ""
       THEN Rejected(ErrV("invalidtitle", page.invalidreason))
       ELSE IF revision = <<>> \/ ~Truthy(basetimestamp) \/ content = Undef
       THEN Rejected(okButEmpty)
       ELSE Resolved([timestamp |-> basetimestamp, content |-> content,
                      starttimestamp |-> IF "curtimestamp" \in DOMAIN b
                                         THEN Str(b.curtimestamp) ELSE Undef])

\* edit between the GET and the transform: the rejection it returns, or the
\* timestamp and the content it goes on with (and resRev.curtimestamp).
editCheck(resRev) ==
    LET b == resRev.v
        resPages == IF "query" \in DOMAIN b /\ "pages" \in DOMAIN b.query
                    THEN <<b.query.pages>> ELSE <<>>
        page == resPages[1][1]
        revision == IF "revisions" \in DOMAIN page /\ Len(page.revisions) > 0
                    THEN <<page.revisions[1]>> ELSE <<>>
        basetimestamp == IF revision # <<>> /\ "timestamp" \in DOMAIN revision[1]
                         THEN Str(revision[1].timestamp) ELSE Undef
        content == IF revision # <<>> /\ "slots" \in DOMAIN revision[1]
                      /\ "content" \in DOMAIN revision[1].slots.main
                   THEN Str(revision[1].slots.main.content) ELSE Undef
    IN IF Truthy(Get(resRev, "error")) THEN Rejected(resRev)
       ELSE IF resPages = <<>> \/ Len(resPages[1]) = 0 THEN Rejected(okButEmpty)
       ELSE IF "invalidreason" \in DOMAIN page /\ page.invalidreason # ""
       THEN Rejected(ErrV("invalidtitle", page.invalidreason))
       ELSE IF "missing" \in DOMAIN page /\ page.missing
       THEN Rejected(ErrV("nocreate-missing", "The requested page does not exist"))
       ELSE IF revision = <<>> \/ ~Truthy(basetimestamp) \/ content = Undef
       THEN Rejected(okButEmpty)
       ELSE Resolved([timestamp |-> basetimestamp, content |-> content,
                      starttimestamp |-> IF "curtimestamp" \in DOMAIN b
                                         THEN Str(b.curtimestamp) ELSE Undef])

\* typeof params === 'object' ? params : {text: String(params)}, as
\* Object.assign reads it: null has no properties.
editParamsOf(params) ==
    IF params.t = "null" THEN <<>>
    ELSE IF params.t = "object" THEN params.v
    ELSE <<Prop("text", Str(String(params)))>>

\* The object edit makes for postWithEditToken.
editParameters(title, anon, checked, params) ==
    assign(<<Prop("action", Str("edit")), Prop("title", Str(title)),
             Prop("assert", IF ~anon THEN Str("user") ELSE Undef),
             Prop("basetimestamp", checked.timestamp),
             Prop("starttimestamp", checked.starttimestamp),
             Prop("nocreate", Bool(TRUE))>>,
           editParamsOf(params))

\* edit up to the GET.  this.anon is true, or false after init().
EditCall(s, title, anon) ==
    /\ CanStart(s)
    /\ tasks' = [tasks EXCEPT ![s] =
           Issue([NoTask EXCEPT !.kind = "edit", !.pc = "rev",
                                !.call = [method |-> "edit", title |-> title, anon |-> anon,
                                          rev |-> Pending, transformed |-> 0,
                                          result |-> Pending, parameters |-> <<>>,
                                          options |-> <<>>]],
                 "GET", Str(""), ajaxPayload("GET", <<>>, defaults, revParams(title)))]
    /\ aborts' = aborts + 1
    /\ budget' = [budget EXCEPT !.calls = @ + 1]
    /\ UNCHANGED <<config, impl, defaults, peers, tokens, hist>>

\* The GET has settled: edit rejects, or calls transform and awaits what it
\* returns.
editRevLand(task, tr, result) ==
    LET got == ajaxSettle(tr)
        seen == [task EXCEPT !.call.rev = got, !.tr = tr]
        checked == IF got.st = "resolved" THEN editCheck(got.val) ELSE got
    IN IF checked.st = "rejected" THEN Finish(seen, tr, checked)
       ELSE [seen EXCEPT !.pc = "transform", !.io = <<>>,
                         !.call.transformed = @ + 1, !.call.result = result]

EditRevLand(s) ==
    /\ tasks[s].kind = "edit"
    /\ tasks[s].pc = "rev"
    /\ \E tr \in EditArrivals(s), result \in TransformResults :
          tasks' = [tasks EXCEPT ![s] = editRevLand(@, tr, result)]
    /\ UNCHANGED <<config, impl, defaults, peers, tokens, aborts, hist, budget>>

\* What transform returned has settled: edit rejects with what it threw, or
\* returns this.postWithEditToken(Object.assign({...}, editParams)), that is
\* postWithToken('csrf', params).
editTransformLand(class, task, cache) ==
    IF task.call.result.st = "rejected" THEN Finish(task, task.tr, task.call.result)
    ELSE pwtGetToken(class,
                     [task EXCEPT !.kind = "postWithToken", !.arg = "csrf",
                                  !.call.parameters =
                                      editParameters(task.call.title, task.call.anon,
                                                     editCheck(task.call.rev.val).val,
                                                     task.call.result.val)],
                     cache, "fetch")

EditTransformLand(s) ==
    /\ tasks[s].kind = "edit"
    /\ tasks[s].pc = "transform"
    /\ LET after == editTransformLand(impl, tasks[s], tokens)
       IN /\ tasks' = [tasks EXCEPT ![s] = after]
          /\ aborts' = aborts + Len(after.io)
          /\ hist' = IF after.kind = "postWithToken" THEN HistGet(hist, TokenName("csrf"))
                     ELSE hist
    /\ UNCHANGED <<config, impl, defaults, peers, tokens, budget>>

\* The body of the POST that the call of edit has in flight.
editPayload(task) ==
    ajaxPayload("POST", <<>>, defaults,
                setKey(task.call.parameters, "token", task.io[1].token))

NextEdit ==
    \/ \E s \in Slots, title \in {"T"}, anon \in BOOLEAN : EditCall(s, title, anon)
    \/ \E s \in Slots : EditRevLand(s)
    \/ \E s \in Slots : EditTransformLand(s)
    \/ \E s \in Slots : PWTFirstToken(s)
    \/ \E s \in Slots : PWTFirstPost(s)
    \/ \E s \in Slots : PWTRetryToken(s)
    \/ \E s \in Slots : PWTRetryPost(s)

SpecEdit == InitAjax /\ [][NextEdit]_vars

NextAjax ==
    \/ \E s \in Slots, method \in {"GET", "POST"}, own \in AjaxOwn, parameters \in AjaxParameters :
          AjaxPayloadCall(s, method, own, parameters)
    \/ \E s \in Slots : AjaxLand(s)
    \/ \E s \in Slots, additionalParams \in AdditionalParams : NewSectionCall(s, additionalParams)
    \/ \E s \in Slots : PWTFirstToken(s)
    \/ \E s \in Slots : PWTFirstPost(s)
    \/ \E s \in Slots : PWTRetryToken(s)
    \/ \E s \in Slots : PWTRetryPost(s)
    \/ \E s \in Slots, parameters \in ContParameters, limit \in ContLimits :
          ContinuedCall(s, parameters, limit)
    \/ \E s \in Slots : ContinuedLand(s)

SpecAjax == InitAjax /\ [][NextAjax]_vars

(***************************************************************************)
(* MWCC.config: get, set and exists on configData, and                     *)
(* validateConfigValue, which tells a value from the one configData        *)
(* starts with.  A record is written as the sequence of its properties.    *)
(***************************************************************************)
\* typeof val
typeOf(val) == IF val.t \in {"object", "array", "null"} THEN "object" ELSE val.t

\* isNaN(val), of a number
isNaN(val) == "nan" \in DOMAIN val

\* val.slice(): an array of its own with the same elements.
slice(val) == Arr([i \in DOMAIN val.v |-> val.v[i]])

validateConfigValue(val) ==
    CASE typeOf(val) = "string" -> IF val # Str(x01) THEN val ELSE Null
      [] typeOf(val) = "number" -> IF ~isNaN(val) THEN val ELSE Null
      [] typeOf(val) = "object" /\ val.t = "array" ->
             LET first == IF Len(val.v) > 0 THEN val.v[1] ELSE Undef IN
             CASE typeOf(first) = "undefined" -> slice(val)
               [] typeOf(first) = "string" -> IF first # Str(x01) THEN slice(val) ELSE Null
               [] typeOf(first) = "number" -> IF ~isNaN(first) THEN slice(val) ELSE Null
               [] OTHER -> Null
      [] OTHER -> Null

\* this.configData[configName]
configValue(data, configName) ==
    IF configName \in DOMAIN data THEN data[configName] ELSE Undef

configGet(data, configName) == validateConfigValue(configValue(data, configName))

configExists(data, configName) ==
    Bool(validateConfigValue(configValue(data, configName)) # Null)

\* config.set: configData afterwards and what set returns.
configSet(data, configName, value) ==
    LET oldType == typeOf(configValue(data, configName))
        newType == typeOf(value)
    IN IF oldType # "undefined" /\ oldType = newType
       THEN [data |-> [data EXCEPT ![configName] = value], ret |-> Bool(TRUE)]
       ELSE [data |-> data, ret |-> Bool(FALSE)]

\* The names the calls pass: of a string, a number, an array and a record of
\* configData, and a name configData has not.
ConfigNames == {"wgWikiID", "wgUserId", "wgUserGroups", "wgNamespaceIds", "wgFoo"}

\* The values the calls of set pass.
ConfigValues ==
    {Str("enwiki"), Str(x01), Num(7), NaN, Arr(<<Str("sysop")>>), Arr(<<>>),
     Arr(<<Str(x01)>>), Obj(<<Prop("Project", Num(4))>>), Null, Bool(TRUE)}

ConfigSet(configName, value) ==
    /\ LET after == configSet(config.data, configName, value)
       IN config' = [data |-> after.data,
                     last |-> [op |-> "set", name |-> configName, value |-> value,
                               old |-> configValue(config.data, configName),
                               ret |-> after.ret]]
    /\ UNCHANGED <<impl, defaults, peers, tokens, aborts, tasks, hist, budget>>

ConfigGet(configName) ==
    /\ config' = [config EXCEPT !.last =
                     [op |-> "get", name |-> configName, value |-> Undef,
                      old |-> configValue(config.data, configName),
                      ret |-> configGet(config.data, configName)]]
    /\ UNCHANGED <<impl, defaults, peers, tokens, aborts, tasks, hist, budget>>

ConfigExists(configName) ==
    /\ config' = [config EXCEPT !.last =
                     [op |-> "exists", name |-> configName, value |-> Undef,
                      old |-> configValue(config.data, configName),
                      ret |-> configExists(config.data, configName)]]
    /\ UNCHANGED <<impl, defaults, peers, tokens, aborts, tasks, hist, budget>>

NextConfig ==
    \/ \E configName \in ConfigNames, value \in ConfigValues : ConfigSet(configName, value)
    \/ \E configName \in ConfigNames : ConfigGet(configName)
    \/ \E configName \in ConfigNames : ConfigExists(configName)

SpecConfig == InitMWCC /\ [][NextConfig]_vars

(***************************************************************************)
(* The claims.                                                             *)
(***************************************************************************)
PWT(s) == tasks[s].kind = "postWithToken"

BadTokenError(p) == p.st = "rejected" /\ ErrCode(p.val) = "badtoken"

\* The step in which the callbacks of the request of slot s ran, the call
\* being at pc.
Landed(s, pc) == tasks[s].pc = pc /\ tasks'[s].pc # pc

C1_Bounded ==
    \A s \in Slots : PWT(s) =>
        /\ tasks[s].posts <= 2
        /\ tasks[s].fetches <= 2
        /\ tasks[s].second.st # "pending" => tasks[s].pc = "done" /\ tasks[s].posts = 2

C1_Step ==
    \A s \in Slots : PWT(s) =>
        /\ Landed(s, "post") /\ BadTokenError(tasks'[s].first) =>
              /\ ~Cached(tokens', TokenName(tasks[s].arg))
              /\ tasks'[s].pc = "retryfetch"
              /\ tasks'[s].fetches = tasks[s].fetches + 1
              /\ tasks'[s].posts = 1
              /\ Len(tasks'[s].io) = 1 /\ tasks'[s].io[1].method = "GET"
        /\ Landed(s, "retryfetch") =>
              IF tasks'[s].pc = "retrypost"
              THEN /\ tasks'[s].posts = 2
                   /\ tasks'[s].fetches = tasks[s].fetches
                   /\ Len(tasks'[s].io) = 1 /\ tasks'[s].io[1].method = "POST"
              ELSE /\ tasks'[s].pc = "done"
                   /\ tasks'[s].posts = 1
                   /\ tasks'[s].res.st = "rejected"
        /\ Landed(s, "retrypost") =>
              /\ tasks'[s].pc = "done"
              /\ tasks'[s].io = <<>>
              /\ tasks'[s].posts = 2
              /\ tasks'[s].fetches = tasks[s].fetches
              /\ BadTokenError(tasks'[s].second) => tasks'[s].res = tasks'[s].second

\* C1: when the first POST of postWithToken rejects with 'badtoken', the
\* cache entry of the type is removed and a token fetch is issued in the same
\* step; when that fetch gives a token, the POST is issued a second time and
\* never a third: the retry POST ends the call, a 'badtoken' of it is the
\* rejection of the call.  A call issues at most 2 POSTs and 2 token fetches.
C1_RetryOnce == []C1_Bounded /\ [][C1_Step]_vars

\* A call that missed the cache, fetched twice and had 'badtoken' for both
\* POSTs.
C1_Witness ==
    \E s \in Slots :
        /\ PWT(s) /\ tasks[s].pc = "done"
        /\ BadTokenError(tasks[s].first) /\ BadTokenError(tasks[s].second)
        /\ tasks[s].posts = 2 /\ tasks[s].fetches = 2
        /\ tasks[s].res = tasks[s].second

\* C2: after a 'badtoken' of the first POST, once the retry POST has settled
\* the call has settled the same way: resolved with the body of the retry's
\* response, or rejected with the retry's error.
C2_RetryOutcome ==
    \A s \in Slots :
        PWT(s) /\ BadTokenError(tasks[s].first) /\ tasks[s].second.st # "pending" =>
            /\ tasks[s].pc = "done"
            /\ tasks[s].res = tasks[s].second
            /\ tasks[s].second = ajaxSettle(tasks[s].tr)
            /\ tasks[s].res.st = "resolved" =>
                  tasks[s].tr.ok /\ tasks[s].res.val = tasks[s].tr.r.v.data

C2_Witness ==
    \E s \in Slots :
        /\ PWT(s) /\ BadTokenError(tasks[s].first)
        /\ tasks[s].second.st = "resolved"
        /\ tasks[s].res = Resolved(Obj(PlainBody))

C3_Propagated ==
    \A s \in Slots :
        PWT(s) /\ tasks[s].first.st = "rejected" /\ ~BadTokenError(tasks[s].first) =>
            /\ tasks[s].pc = "done"
            /\ tasks[s].res = tasks[s].first
            /\ tasks[s].posts = 1
            /\ tasks[s].fetches <= 1
            /\ tasks[s].second.st = "pending"

C3_Step ==
    /\ \A s \in Slots :
          PWT(s) /\ Landed(s, "post") /\ ~BadTokenError(tasks'[s].first) => tokens' = tokens
    /\ \A s \in Slots :
          /\ tasks'[s].kind \in {"ajax", "continuedQuery", "massQuery"}
          /\ tasks'[s] # tasks[s]
          => tokens' = tokens

\* C3: when the first POST of postWithToken rejects with an error that is not
\* 'badtoken', the call rejects with that error, no second POST and no second
\* token fetch is issued, and the step leaves the cache as it was; and no
\* step of get, post, ajax, continuedQuery or massQuery changes the cache.
C3_OtherErrors == []C3_Propagated /\ [][C3_Step]_vars

\* A call rejected with the API's 'permissiondenied', its token still cached.
C3_Witness ==
    \E s \in Slots :
        /\ PWT(s) /\ tasks[s].pc = "done"
        /\ ErrCode(tasks[s].first.val) = "permissiondenied"
        /\ tasks[s].res = tasks[s].first
        /\ Cached(tokens, TokenName(tasks[s].arg))

\* The step in which a call starts in slot s.
Started(s) == CanStart(s) /\ budget'.calls = budget.calls + 1

\* The call that starts in slot s is served from the cache: it has settled
\* with the cached string and has issued no request.
ServedFromCache(s) ==
    /\ tasks'[s].pc = "done"
    /\ tasks'[s].fetches = 0
    /\ tasks'[s].io = <<>>
    /\ aborts' = aborts
    /\ TokenName(tasks'[s].arg) \in DOMAIN tokens
    /\ tasks'[s].res = Resolved(Str(tokens[TokenName(tasks'[s].arg)]))

C4_OriginalStep ==
    \A s \in Slots :
        Started(s) /\ tasks'[s].kind = "getToken" /\ hist[TokenName(tasks'[s].arg)].fill
            => ServedFromCache(s)

\* C4 as stated: once a fetch has stored a token for a type, with no badToken
\* for the type and no rejected getToken since, every getToken for the type
\* is served from the cache.
C4_Original == [][C4_OriginalStep]_vars

C4_CachedStep ==
    \A s \in Slots :
        Started(s) /\ tasks'[s].kind = "getToken" /\ hist[TokenName(tasks'[s].arg)].kept
            => ServedFromCache(s)

\* C4 amended: once a fetch has stored a token for a type, with no badToken
\* for the type, no rejected getToken and no token fetch whose response has
\* no token for the type since, every getToken for the type is served from
\* the cache.
C4_CachedUntilReplaced == [][C4_CachedStep]_vars

\* A second getToken for a type, served from the cache the first one filled.
C4_Witness ==
    \E s \in Slots :
        /\ tasks[s].kind = "getToken" /\ tasks[s].pc = "done"
        /\ tasks[s].fetches = 0 /\ tasks[s].res.st = "resolved"
        /\ hist[TokenName(tasks[s].arg)].kept
        /\ budget.calls = 2 /\ budget.bad = 0

C5_OriginalStep ==
    \A s \in Slots :
        Started(s) /\ tasks'[s].kind = "getToken" /\ hist[TokenName(tasks'[s].arg)].bad
            => /\ tasks'[s].pc = "fetch"
               /\ tasks'[s].fetches = 1
               /\ aborts' = aborts + 1

\* C5 as stated: the first getToken for a type after badToken for the type
\* issues a token fetch.
C5_Original == [][C5_OriginalStep]_vars

\* The token object of the response the callbacks of slot s ran on.
Fetched(s) == queryTokens(ajaxSettle(tasks'[s].tr).val)

FetchLanded(s) ==
    /\ tasks[s].kind \in {"getToken", "postWithToken"}
    /\ Landed(s, "fetch") \/ Landed(s, "retryfetch")
    /\ tasks'[s].tr.ok
    /\ ajaxSettle(tasks'[s].tr).st = "resolved"
    /\ Truthy(Fetched(s))

C6_OriginalStep ==
    \A s \in Slots :
        FetchLanded(s) =>
            /\ tokens' = Fetched(s).v
            /\ \A type \in TypeArgs :
                  TokenName(type) \in DOMAIN Fetched(s).v
                      => getToken(tokens', type).pc = "done"

\* C6 as stated: a token fetch that gives a token object leaves the cache
\* equal to that object, and getToken for every type the object has an entry
\* of is then served from the cache.
C6_Original == [][C6_OriginalStep]_vars

C7_Settled ==
    \A s \in Slots :
        tasks[s].kind = "getToken" /\ tasks[s].pc = "done" /\ tasks[s].fetches = 1 =>
            LET got == ajaxSettle(tasks[s].tr)
                tokenName == TokenName(tasks[s].arg)
            IN /\ got.st = "rejected" => tasks[s].res = got
               /\ got.st = "resolved" /\ ~Truthy(queryTokens(got.val)) =>
                     /\ tasks[s].res.st = "rejected"
                     /\ ErrCode(tasks[s].res.val) = "ok-but-empty"
               /\ got.st = "resolved" /\ Truthy(queryTokens(got.val)) =>
                     IF Cached(queryTokens(got.val).v, tokenName)
                     THEN tasks[s].res = Resolved(Str(queryTokens(got.val).v[tokenName]))
                     ELSE /\ tasks[s].res.st = "rejected"
                          /\ ErrCode(tasks[s].res.val) = "badnamedtoken"

C7_Step ==
    \A s \in Slots :
        /\ tasks[s].kind = "getToken"
        /\ Landed(s, "fetch")
        /\ ErrCode(tasks'[s].res.val) # "badnamedtoken"
        /\ tasks'[s].res.st = "rejected"
        => tokens' = tokens

\* C7: a getToken that has fetched rejects with the error of the GET when
\* the GET has failed, with 'ok-but-empty' when the response has no
\* query.tokens, with 'badnamedtoken' when query.tokens has no token of the
\* type; in the first two cases the step leaves the cache as it was.
C7_Rejections == []C7_Settled /\ [][C7_Step]_vars

\* A getToken rejected for a response without tokens, the cache still filled.
C7_Witness ==
    \E s \in Slots :
        /\ tasks[s].kind = "getToken" /\ tasks[s].pc = "done"
        /\ tasks[s].res = Rejected(ErrV("ok-but-empty", "OK response but empty result"))
        /\ tokens # <<>>

\* The legacy names of the claim.
LegacyNames ==
    {"edit", "delete", "protect", "move", "block", "unblock", "email", "import", "options"}

SameButArg(a, b) == [a EXCEPT !.arg = ""] = [b EXCEPT !.arg = ""]

\* C8: in every reachable cache, for every legacy name L, getToken(L),
\* badToken(L) and postWithToken(L) read, remove and send the same as with
\* 'csrf', and settle the same on every response.
C8_LegacyAliases ==
    \A L \in LegacyNames :
        /\ TokenName(L) = TokenName("csrf")
        /\ badToken(tokens, L) = badToken(tokens, "csrf")
        /\ SameButArg(getToken(tokens, L), getToken(tokens, "csrf"))
        /\ SameButArg(pwtGetToken(impl, [NoTask EXCEPT !.kind = "postWithToken", !.arg = L],
                                  tokens, "fetch"),
                      pwtGetToken(impl, [NoTask EXCEPT !.kind = "postWithToken", !.arg = "csrf"],
                                  tokens, "fetch"))
        /\ \A s \in Slots : \A tr \in Arrivals(s) :
              getTokenSettle(L, ajaxSettle(tr)) = getTokenSettle("csrf", ajaxSettle(tr))

\* getToken('edit') served from the entry a call with 'csrf' filled, or the
\* other way round.
C8_Witness ==
    \E s \in Slots :
        /\ tasks[s].arg = "edit" /\ tasks[s].pc = "done"
        /\ tasks[s].fetches = 0
        /\ tasks[s].res.st = "resolved"
        /\ "csrftoken" \in DOMAIN tokens

\* An ajax call that has settled has settled the way the outcome of the
\* transport is classified, a body being in error when HasError says so.
C9_Classified(HasError(_)) ==
    \A s \in Slots :
        tasks[s].kind = "ajax" =>
            /\ tasks[s].pc = "done" <=> tasks[s].res.st # "pending"
            /\ tasks[s].pc = "done" =>
                  LET tr == tasks[s].tr
                      res == tasks[s].res
                      body == Get(tr.r, "data")
                  IN IF tr.ok
                     THEN IF body = Undef \/ body = Str("")
                          THEN res.st = "rejected" /\ ErrCode(res.val) = "ok-but-empty"
                          ELSE IF body.t # "object"
                          THEN res.st = "rejected" /\ ErrCode(res.val) = "invalidjson"
                          ELSE IF HasError(body)
                          THEN res = Rejected(body)
                          ELSE res = Resolved(body)
                     ELSE IF Get(tr.r, "code") = "ERR_CANCELED"
                          THEN res.st = "rejected" /\ ErrCode(res.val) = "aborted"
                          ELSE /\ res.st = "rejected" /\ ErrCode(res.val) = "http"
                               /\ res.val.v.error.v.details = tr.r

\* A settled ajax call stays settled the same way.
C9_Once ==
    \A s \in Slots :
        tasks[s].kind = "ajax" /\ tasks[s].res.st # "pending" /\ ~Started(s)
            => tasks'[s].res = tasks[s].res

HasErrorField(body) == Has(body, "error")

HasErrorSet(body) == Truthy(Get(body, "error"))

\* C9 as stated: ajax settles once; it resolves with the body when the
\* transport succeeded and the body is not empty, is an object and has no
\* error field, and rejects otherwise: 'ok-but-empty', 'invalidjson', the
\* body that has the error field, 'aborted', 'http' with the error of the
\* transport, in this order.
C9_Original == []C9_Classified(HasErrorField) /\ [][C9_Once]_vars

\* C9 amended: the same, a body being rejected when its error field holds a
\* truthy value and resolved when the field is absent or null.
C9_TruthyError == []C9_Classified(HasErrorSet) /\ [][C9_Once]_vars

\* An ajax call resolved with a body whose error field is null.
C9_Witness ==
    \E s \in Slots :
        /\ tasks[s].kind = "ajax" /\ tasks[s].pc = "done"
        /\ tasks[s].res.st = "resolved"
        /\ Has(tasks[s].res.val, "error")

IsEnvelope(v) == Has(Get(v, "error"), "code") /\ Has(Get(v, "error"), "info")

\* C10 as stated: every rejection of get, post, ajax, getToken, postWithToken
\* and massQuery is an object {error: {code, info, ...}}.
C10_Original ==
    \A s \in Slots :
        tasks[s].kind # "continuedQuery" /\ tasks[s].res.st = "rejected"
            => IsEnvelope(tasks[s].res.val)

(***************************************************************************)
(* continuedQuery.                                                         *)
(***************************************************************************)
CQ(s) == tasks[s].kind = "continuedQuery"

\* The step in which the callbacks of req ran on the settled GET of slot s.
CqLanded(s) ==
    /\ CQ(s) /\ tasks[s].pc = "cq"
    /\ Len(tasks'[s].responses) = Len(tasks[s].responses) + 1

\* How ajax settled the GET the callbacks of this step ran on.
CqGot(s) == ajaxSettle(tasks'[s].tr)

\* The requests a continuedQuery call has issued: those answered and the one
\* in flight.
CqIssued(s) == Len(tasks[s].responses) + Len(tasks[s].io)

C11_Bounded ==
    \A s \in Slots : CQ(s) =>
        /\ CqIssued(s) <= tasks[s].limit
        /\ \A i \in DOMAIN tasks[s].io : tasks[s].io[i].method = "GET"
        /\ tasks[s].pc = "done" => tasks[s].io = <<>>

C11_Step ==
    \A s \in Slots : CqLanded(s) /\ CqGot(s).st = "resolved" =>
        LET n == Len(tasks'[s].responses) IN
        /\ tasks'[s].responses = Append(tasks[s].responses, CqGot(s).val)
        /\ CqGot(s).val = tasks'[s].tr.r.v.data
        /\ IF Has(CqGot(s).val, "continue") /\ n < tasks[s].limit
           THEN /\ tasks'[s].pc = "cq"
                /\ Len(tasks'[s].io) = 1 /\ tasks'[s].io[1].open
                /\ aborts' = aborts + 1
           ELSE /\ tasks'[s].pc = "done"
                /\ tasks'[s].io = <<>>
                /\ aborts' = aborts
                /\ tasks'[s].res = Resolved(Arr(tasks'[s].responses))

C12_NeverRejected ==
    \A s \in Slots : CQ(s) =>
        /\ tasks[s].res.st # "rejected"
        /\ tasks[s].pc = "done" => tasks[s].res = Resolved(Arr(tasks[s].responses))
        /\ \A i \in DOMAIN tasks[s].responses :
              i < Len(tasks[s].responses) =>
                  /\ Has(tasks[s].responses[i], "continue")
                  /\ ~Truthy(Get(tasks[s].responses[i], "error"))

C12_Step ==
    \A s \in Slots : CqLanded(s) /\ CqGot(s).st = "rejected" =>
        /\ tasks'[s].responses = Append(tasks[s].responses, CqGot(s).val)
        /\ tasks'[s].pc = "done"
        /\ tasks'[s].io = <<>>
        /\ aborts' = aborts
        /\ tasks'[s].res = Resolved(Arr(tasks'[s].responses))

\* C12: continuedQuery never rejects; when the GET of step i fails, the error
\* is pushed as entry i, the last one, after the i-1 responses of the steps
\* before, no further GET is issued and the call resolves with the i entries.
C12_FailureIsAnEntry == []C12_NeverRejected /\ [][C12_Step]_vars

\* A call whose second GET was aborted: resolved with the first response and
\* the error.
C12_Witness ==
    \E s \in Slots :
        /\ CQ(s) /\ tasks[s].pc = "done"
        /\ Len(tasks[s].responses) = 2
        /\ ErrCode(tasks[s].responses[2]) = "aborted"
        /\ tasks[s].res = Resolved(Arr(tasks[s].responses))

\* A request of the call in slot s that was not there before the step.
CqIssuedNow(s) ==
    /\ tasks'[s].kind = "continuedQuery" /\ tasks'[s].pc = "cq"
    /\ \/ Started(s)
       \/ /\ CQ(s) /\ tasks[s].pc = "cq"
          /\ Len(tasks'[s].responses) + Len(tasks'[s].io) > CqIssued(s)

C13_OneOutstanding ==
    \A s \in Slots : CQ(s) => Cardinality(Outstanding(s)) <= 1

C13_Step ==
    \A s \in Slots : CqIssuedNow(s) =>
        \/ Started(s)
        \/ /\ CqLanded(s)
           /\ Outstanding(s) = {1}
           /\ tasks'[s].tr.ok
           /\ CqGot(s).st = "resolved"
           /\ Has(CqGot(s).val, "continue")
           /\ Len(tasks'[s].io) = 1

\* C13: a continuedQuery call has at most one request outstanding, and it
\* issues a request only when it starts or in the callback of its settled
\* request, that request having resolved with a body that has a continue
\* object.
C13_Sequential == []C13_OneOutstanding /\ [][C13_Step]_vars

\* The second GET of a call in flight, after the first response.
C13_Witness ==
    \E s \in Slots :
        /\ CQ(s) /\ tasks[s].pc = "cq"
        /\ Len(tasks[s].responses) = 1
        /\ Outstanding(s) = {1}

(***************************************************************************)
(* massQuery as its caller sees it. The arguments of the call are kept in  *)
(* tasks[s].call; what they ask for is read off them here, not off the     *)
(* steps of the method.                                                    *)
(***************************************************************************)
MQ(s) == tasks[s].kind = "massQuery"

\* The step in which massQuery was called in slot s and returned its promise.
MqStarted(s) == Started(s) /\ tasks'[s].kind = "massQuery"

\* The names the fields argument gives, the falsy ones left out.
MqNamed(call) ==
    (IF call.fields.t = "array" THEN {call.fields.v[i] : i \in DOMAIN call.fields.v}
     ELSE {call.fields.v}) \ {""}

MqKeys(call) == {call.parameters[i].k : i \in DOMAIN call.parameters}

MqValue(call, k) ==
    IF k \in MqKeys(call)
    THEN (CHOOSE p \in {call.parameters[i] : i \in DOMAIN call.parameters} : p.k = k).v
    ELSE Undef

\* The named fields that parameters holds an array for.
MqArrays(call) == {k \in MqNamed(call) \cap MqKeys(call) : MqValue(call, k).t = "array"}

\* The named fields that parameters holds something else for.
MqNonArrays(call) == {k \in MqNamed(call) \cap MqKeys(call) : MqValue(call, k).t # "array"}

\* The ceiling of the call: the limit passed, the one of the instance otherwise.
MqCeiling(call) == IF call.apilimit.t = "number" THEN call.apilimit.v ELSE apilimit

\* The elements of an array as strings.
Coerced(v) == [j \in DOMAIN v.v |-> String(v.v[j])]

Ceil(n, c) == (n + c - 1) \div c

\* Elements (i-1)c+1 .. ic of arr, as many of them as there are.
ExpectedChunk(arr, c, i) == SubSeq(arr, (i - 1) * c + 1, Min(i * c, Len(arr)))

MqRejectedWith(task, code) ==
    task.pc = "done" /\ task.res.st = "rejected" /\ ErrCode(task.res.val) = code

\* One named field, and parameters holds an array for it.
MqSingle(call) == Cardinality(MqNamed(call)) = 1 /\ MqArrays(call) = MqNamed(call)

\* The call of this step has one multi-value field of N elements and the
\* ceiling C: it issues ceil(N/C) POSTs, POST i carrying the at most C
\* elements of chunk i joined with '|'; with N = 0 it issues none and is
\* resolved with the empty array.
C14_Step ==
    \A s \in Slots :
        MqStarted(s) /\ MqSingle(tasks'[s].call) =>
            LET call == tasks'[s].call
                f == CHOOSE k \in MqNamed(call) : TRUE
                arr == Coerced(MqValue(call, f))
                C == MqCeiling(call)
                n == Ceil(Len(arr), C)
            IN /\ Len(tasks'[s].io) = n
               /\ tasks'[s].posts = n
               /\ aborts' = aborts + n
               /\ \A i \in 1..n :
                      /\ tasks'[s].io[i].method = "POST"
                      /\ Len(ExpectedChunk(arr, C, i)) \in 1..C
                      /\ tasks'[s].io[i].params[f] = join(ExpectedChunk(arr, C, i))
               /\ IF Len(arr) = 0
                  THEN tasks'[s].pc = "done" /\ tasks'[s].res = Resolved(Arr(<<>>))
                  ELSE tasks'[s].pc = "chunks" /\ tasks'[s].res = Pending

\* No POST is issued after massQuery has returned.
C14_NoMore ==
    \A s \in Slots : MQ(s) /\ ~Started(s) => tasks'[s].posts = tasks[s].posts

\* The settled call with one multi-value field is resolved with ceil(N/C)
\* outcomes.
C14_Outcomes ==
    \A s \in Slots :
        MQ(s) /\ tasks[s].pc = "done" /\ MqSingle(tasks[s].call) =>
            /\ tasks[s].res.st = "resolved"
            /\ tasks[s].res.val.t = "array"
            /\ Len(tasks[s].res.val.v)
                   = Ceil(Len(MqValue(tasks[s].call, CHOOSE k \in MqNamed(tasks[s].call) : TRUE).v),
                          MqCeiling(tasks[s].call))

\* C14: massQuery with a single multi-value field of N elements and ceiling
\* C issues exactly ceil(N/C) POST requests, each carrying at most C
\* elements joined with '|', and resolves with ceil(N/C) outcomes; with
\* N = 0 it resolves with the empty array and issues no request.
C14_ChunkCount == []C14_Outcomes /\ [][C14_Step /\ C14_NoMore]_vars

\* The elements of one field, more of them than the ceiling 2, were sent in
\* ceil(N/2) POSTs, and the call is resolved with as many outcomes.
C14_Witness ==
    \E s \in Slots :
        /\ MQ(s) /\ tasks[s].pc = "done" /\ MqSingle(tasks[s].call)
        /\ MqCeiling(tasks[s].call) = 2
        /\ Len(MqValue(tasks[s].call, "titles").v) > 2
        /\ tasks[s].posts = Ceil(Len(MqValue(tasks[s].call, "titles").v), 2)
        /\ tasks[s].res.st = "resolved"
        /\ Len(tasks[s].res.val.v) = tasks[s].posts

\* The call passes the validation of massQuery: no named field holds a
\* non-array, one at least holds an array, and the arrays held are the same
\* once their elements are strings.
MqAccepted(call) ==
    /\ MqNonArrays(call) = {}
    /\ MqArrays(call) # {}
    /\ \A k1, k2 \in MqArrays(call) : Coerced(MqValue(call, k1)) = Coerced(MqValue(call, k2))

\* The array the call is about, its elements as strings.
MqBatch(call) == Coerced(MqValue(call, CHOOSE k \in MqArrays(call) : TRUE))

\* The POSTs of the call of this step, against the chunks its array has.
C15_Step ==
    \A s \in Slots :
        MqStarted(s) /\ MqAccepted(tasks'[s].call) =>
            LET call == tasks'[s].call
                arr == MqBatch(call)
                C == MqCeiling(call)
                io == tasks'[s].io
                n == Len(io)
            IN /\ \A i \in 1..n : \A f \in MqNamed(call) :
                      io[i].params[f] = join(ExpectedChunk(arr, C, i))
               /\ \A i \in 1..(n - 1) : Len(ExpectedChunk(arr, C, i)) = C
               /\ n > 0 => Len(ExpectedChunk(arr, C, n)) \in 1..C
               /\ (n - 1) * C < Len(arr) /\ Len(arr) <= n * C
               /\ \A f \in MqNamed(call) : join([i \in 1..n |-> io[i].params[f]]) = join(arr)

\* C15: the chunks massQuery sends partition the input array: POST i carries
\* elements (i-1)C+1 .. iC of the string-coerced array joined with '|', so
\* the chunks in issue order concatenate to the original, the first holds
\* the first C elements and every chunk but the last holds exactly C; within
\* one POST every named field carries the same joined chunk.
C15_Partition == [][C15_Step]_vars

\* Two named fields, one given as numbers and one as strings, are in flight
\* in two POSTs: each POST carries one element, the same in both fields.
C15_Witness ==
    \E s \in Slots :
        /\ MQ(s) /\ tasks[s].pc = "chunks"
        /\ MqNamed(tasks[s].call) = {"pageids", "revids"}
        /\ MqCeiling(tasks[s].call) = 1
        /\ Len(tasks[s].io) = 2
        /\ tasks[s].io[1].params["pageids"] = "1" /\ tasks[s].io[1].params["revids"] = "1"
        /\ tasks[s].io[2].params["pageids"] = "2" /\ tasks[s].io[2].params["revids"] = "2"

\* The step in which the callbacks of a chunk POST of slot s ran.
MqLanded(s) ==
    /\ MQ(s) /\ tasks[s].pc = "chunks"
    /\ budget' = budget
    /\ tasks'[s] # tasks[s]

\* massQuery returns with every chunk POST in flight and its promise pending.
C16_FanOut ==
    \A s \in Slots :
        MqStarted(s) /\ MqAccepted(tasks'[s].call) /\ Len(MqBatch(tasks'[s].call)) > 0 =>
            /\ Len(tasks'[s].io) = Ceil(Len(MqBatch(tasks'[s].call)), MqCeiling(tasks'[s].call))
            /\ \A i \in DOMAIN tasks'[s].io :
                   tasks'[s].io[i].open /\ tasks'[s].responses[i] = Pending
            /\ tasks'[s].res = Pending

\* A chunk POST that settles, with a response or with an error, leaves what
\* it settled with as its outcome; the other chunk POSTs are as they were and
\* no controller is touched; the promise of massQuery is resolved with the
\* outcomes in the step in which the last chunk POST settles, and not before.
C16_FanIn ==
    \A s \in Slots :
        MqLanded(s) =>
            \E i \in Outstanding(s) :
                LET got == ajaxSettle(tasks'[s].tr)
                IN /\ aborts' = aborts
                   /\ IF Outstanding(s) = {i}
                      THEN /\ tasks'[s].pc = "done"
                           /\ tasks'[s].res =
                                  Resolved(Arr([j \in DOMAIN tasks[s].io |->
                                                   IF j = i THEN got.val
                                                   ELSE tasks[s].responses[j].val]))
                      ELSE /\ tasks'[s].pc = "chunks"
                           /\ tasks'[s].res = Pending
                           /\ tasks'[s].responses[i] = Resolved(got.val)
                           /\ ~tasks'[s].io[i].open
                           /\ \A j \in DOMAIN tasks[s].io \ {i} :
                                  /\ tasks'[s].io[j] = tasks[s].io[j]
                                  /\ tasks'[s].responses[j] = tasks[s].responses[j]

\* While a chunk POST is in flight the promise is pending, and a call that
\* passed the validation is never rejected.
C16_Pending ==
    \A s \in Slots :
        MQ(s) =>
            /\ Outstanding(s) # {} => tasks[s].res = Pending
            /\ tasks[s].res.st = "rejected" => ~MqAccepted(tasks[s].call)

\* C16: massQuery is a fan-out/fan-in: once validation has passed all chunk
\* POSTs are issued before any of them settles, the returned promise
\* resolves only after every chunk POST has settled, and it never rejects;
\* a chunk that fails contributes its error value as its outcome without
\* preventing or cancelling its siblings.
C16_FanOutFanIn == []C16_Pending /\ [][C16_FanOut /\ C16_FanIn]_vars

\* A call is resolved with the error of its first chunk POST and the
\* response of its second.
C16_Witness ==
    \E s \in Slots :
        /\ MQ(s) /\ tasks[s].pc = "done" /\ tasks[s].res.st = "resolved"
        /\ Len(tasks[s].res.val.v) = 2
        /\ ErrCode(tasks[s].res.val.v[1]) = "http"
        /\ tasks[s].res.val.v[2] = Obj(PlainBody)

\* Two arrays differ in length or in an element.
Differ(a, b) == Len(a) # Len(b) \/ \E i \in DOMAIN a \cap DOMAIN b : a[i] # b[i]

\* The named fields that parameters holds are multi-value fields, two or
\* more of them.
MqSeveral(call) == MqNonArrays(call) = {} /\ Cardinality(MqArrays(call)) >= 2

\* The call of this step names two or more multi-value fields: when two of
\* the arrays differ once their elements are strings it is rejected with
\* 'nonindentical-arrays' and nothing is requested; when none do it is not
\* rejected, and its chunks are requested.
C17_Step ==
    \A s \in Slots :
        MqStarted(s) /\ MqSeveral(tasks'[s].call) =>
            LET call == tasks'[s].call
            IN IF \E k1, k2 \in MqArrays(call) :
                      Differ(Coerced(MqValue(call, k1)), Coerced(MqValue(call, k2)))
               THEN /\ MqRejectedWith(tasks'[s], "nonindentical-arrays")
                    /\ tasks'[s].io = <<>> /\ tasks'[s].posts = 0
                    /\ aborts' = aborts
               ELSE /\ tasks'[s].res.st # "rejected"
                    /\ Len(tasks'[s].io) = Ceil(Len(MqBatch(call)), MqCeiling(call))

\* C17: massQuery with two or more named multi-value fields whose arrays
\* differ in length or in any element, after string coercion, is rejected
\* with 'nonindentical-arrays' and issues zero requests; arrays that are
\* element-wise equal after coercion, numbers against their decimal strings
\* included, are accepted.
C17_SameArray == [][C17_Step /\ C14_NoMore]_vars

\* A call that gives one field as numbers and another as the strings of
\* those numbers has its chunks in flight.
C17_Witness ==
    \E s \in Slots :
        /\ MQ(s) /\ tasks[s].pc = "chunks" /\ tasks[s].io # <<>>
        /\ MqSeveral(tasks[s].call)
        /\ \E k1, k2 \in MqArrays(tasks[s].call) :
               /\ MqValue(tasks[s].call, k1).v # MqValue(tasks[s].call, k2).v
               /\ MqValue(tasks[s].call, k1).v[1].t = "number"
               /\ MqValue(tasks[s].call, k2).v[1].t = "string"

\* The call of this step: when parameters holds a non-array for a named
\* field it is rejected with 'nonarray-exception' and nothing is requested;
\* when it is not rejected, parameters holds an array for every named field.
C18_Step ==
    \A s \in Slots :
        MqStarted(s) =>
            LET call == tasks'[s].call
            IN /\ MqNonArrays(call) # {} =>
                      /\ MqRejectedWith(tasks'[s], "nonarray-exception")
                      /\ tasks'[s].io = <<>> /\ tasks'[s].posts = 0
                      /\ aborts' = aborts
               /\ tasks'[s].res.st # "rejected" => MqArrays(call) = MqNamed(call)

\* C18: massQuery is rejected with 'nonarray-exception' and issues zero
\* requests whenever any field named in fields maps to a non-array in
\* parameters; every field named in fields must map to an array in
\* parameters for the call to proceed.
C18_Original == [][C18_Step]_vars

MqNothingRequested(s) ==
    tasks'[s].io = <<>> /\ tasks'[s].posts = 0 /\ aborts' = aborts

\* The call of this step: rejected with 'emptyfield' when no name is left in
\* fields, with 'nomultivalue' when names are left and parameters holds an
\* array for none of them.
C19_OriginalStep ==
    \A s \in Slots :
        MqStarted(s) =>
            LET call == tasks'[s].call
            IN /\ MqNamed(call) = {} =>
                      MqRejectedWith(tasks'[s], "emptyfield") /\ MqNothingRequested(s)
               /\ MqNamed(call) # {} /\ MqArrays(call) = {} =>
                      MqRejectedWith(tasks'[s], "nomultivalue") /\ MqNothingRequested(s)

\* C19, as stated: massQuery is rejected with 'emptyfield' when fields is
\* empty after its falsy entries are filtered out, and with 'nomultivalue'
\* when fields is non-empty but none of the named fields is present as an
\* array in parameters; in both cases zero requests are issued.
C19_Original == [][C19_OriginalStep]_vars

\* The call of this step: rejected with 'emptyfield' when no name is left in
\* fields, with 'nomultivalue' when names are left and none of them is a key
\* of parameters, with 'nonarray-exception' when parameters holds a
\* non-array for one of them.
C19_Step ==
    \A s \in Slots :
        MqStarted(s) =>
            LET call == tasks'[s].call
            IN /\ MqNamed(call) = {} =>
                      MqRejectedWith(tasks'[s], "emptyfield") /\ MqNothingRequested(s)
               /\ MqNamed(call) # {} /\ MqNamed(call) \cap MqKeys(call) = {} =>
                      MqRejectedWith(tasks'[s], "nomultivalue") /\ MqNothingRequested(s)
               /\ MqNonArrays(call) # {} =>
                      MqRejectedWith(tasks'[s], "nonarray-exception") /\ MqNothingRequested(s)

\* C19, amended: massQuery is rejected with 'emptyfield' when fields is
\* empty after its falsy entries are filtered out, and with 'nomultivalue'
\* when fields is non-empty but none of the named fields is present in
\* parameters; a named field that is present with a non-array value gives
\* 'nonarray-exception', whether or not another named field holds an array;
\* in all these cases zero requests are issued.
C19_EmptyOrAbsent == [][C19_Step /\ C14_NoMore]_vars

\* A call that names a field parameters does not have is rejected with
\* 'nomultivalue', no request made.
C19_Witness ==
    \E s \in Slots :
        /\ MQ(s) /\ MqRejectedWith(tasks[s], "nomultivalue")
        /\ MqNamed(tasks[s].call) # {}
        /\ MqNamed(tasks[s].call) \cap MqKeys(tasks[s].call) = {}
        /\ tasks[s].posts = 0

\* A call that is rejected as it is made registers no controller and leaves
\* the token cache as it is; no step of massQuery writes the token cache.
C20_Step ==
    \A s \in Slots :
        /\ MqStarted(s) /\ tasks'[s].res.st = "rejected" =>
               /\ MqNothingRequested(s)
               /\ tokens' = tokens
        /\ MqStarted(s) \/ MqLanded(s) => tokens' = tokens

\* The parameters object of the caller, and the arrays in it, hold what they
\* held when massQuery was called.
C20_CallerUntouched ==
    \A s \in Slots : MQ(s) => tasks[s].caller = tasks[s].call.parameters

\* C20: massQuery has no partial side effects: on every validation rejection
\* no cancellation handle is registered and the token cache is unchanged, and
\* on every path the caller's parameters object and its arrays are left
\* exactly as passed in.
C20_NoSideEffects == []C20_CallerUntouched /\ [][C20_Step]_vars

\* A call made with bklimit = 10 under the default ceiling has sent
\* bklimit = 'max' with the whole array, and the object of the caller still
\* holds 10 and the array.
C20_Witness ==
    \E s \in Slots :
        /\ MQ(s) /\ tasks[s].pc = "chunks"
        /\ MqValue(tasks[s].call, "bklimit") = Num(10)
        /\ MqCeiling(tasks[s].call) = apilimit
        /\ tasks[s].io[1].params["bklimit"] = "max"
        /\ tasks[s].io[1].params["titles"] = join(MqBatch(tasks[s].call))
        /\ tasks[s].caller = tasks[s].call.parameters
        /\ Len(MqValue(tasks[s].call, "titles").v) > 0

(***************************************************************************)
(* The controllers of this.aborts.                                         *)
(***************************************************************************)
RECURSIVE SumOver(_, _)
SumOver(f, S) ==
    IF S = {} THEN 0
    ELSE LET x == CHOOSE y \in S : TRUE IN f[x] + SumOver(f, S \ {x})

\* The requests slot s issues in this step.
IssuedNow(s) ==
    IF Started(s) THEN tasks'[s].issued ELSE tasks'[s].issued - tasks[s].issued

\* The step is a call of abort().
AbortStep == budget'.abort = budget.abort + 1

\* abort() empties this.aborts; every other step adds one controller for
\* each request it issues and takes none out, the steps in which requests
\* settle included; a call that returns with requests in flight has issued
\* one request for each.
C22_Step ==
    /\ IF AbortStep THEN aborts' = 0
       ELSE aborts' = aborts + SumOver([s \in Slots |-> IssuedNow(s)], Slots)
    /\ \A s \in Slots :
           Started(s) /\ tasks'[s].pc # "done" => Len(tasks'[s].io) = tasks'[s].issued

\* The controller of every request that is in flight and was not aborted is
\* in this.aborts.
C22_Registered ==
    SumOver([s \in Slots |-> Cardinality({i \in Outstanding(s) : ~tasks[s].io[i].sig})], Slots)
        <= aborts

\* C22: each ajax call, direct or made by get, post, getToken, postWithToken,
\* continuedQuery or massQuery, performs exactly one transport request and
\* appends exactly one cancellation handle to this.aborts; the completion of
\* a request never removes its handle, so the size of this.aborts is the
\* number of requests issued since construction or the last abort().
C22_OneHandlePerRequest == []C22_Registered /\ [][C22_Step]_vars

\* Two requests were issued and one of them has settled: this.aborts holds
\* two controllers.
C22_Witness ==
    /\ budget.abort = 0
    /\ aborts = 2
    /\ SumOver([s \in Slots |-> Cardinality(Outstanding(s))], Slots) = 1

\* The call of this step passes the validation: in each of its POSTs a
\* parameter that is no named field and whose name ends in 'limit' is 'max'
\* under the ceilings 500 and 50, and what the caller gave under any other.
C28_Step ==
    \A s \in Slots :
        MqStarted(s) /\ MqAccepted(tasks'[s].call) =>
            LET call == tasks'[s].call
            IN \A k \in MqKeys(call) \ MqNamed(call) :
                   EndsInLimit(k) =>
                       \A i \in DOMAIN tasks'[s].io :
                           tasks'[s].io[i].params[k] =
                               IF MqCeiling(call) \in {500, 50} THEN "max"
                               ELSE String(MqValue(call, k))

\* C28: massQuery auto-max: when the effective ceiling is a recognized
\* default (500 or 50), every parameter that is not a named field and whose
\* name ends in 'limit' is sent as 'max' in every chunk POST; for any other
\* ceiling such parameters are sent with the caller's value.
C28_AutoMax == [][C28_Step]_vars

\* A call made with bklimit = 10 under the ceiling 500 has a POST in flight
\* that carries bklimit = 'max'.
C28_Witness ==
    \E s \in Slots :
        /\ MQ(s) /\ tasks[s].pc = "chunks"
        /\ MqCeiling(tasks[s].call) = 500
        /\ MqValue(tasks[s].call, "bklimit") = Num(10)
        /\ \A i \in DOMAIN tasks[s].io : tasks[s].io[i].params["bklimit"] = "max"
        /\ tasks[s].io # <<>>

\* The step in which postWithToken issues its retry POST: the body of the
\* POST carries the token the second getToken resolved with.
C30_Step ==
    \A s \in Slots :
        PWT(s) /\ ~Started(s) /\ tasks[s].posts = 1 /\ tasks'[s].posts = 2 =>
            /\ tasks'[s].pc = "retrypost"
            /\ tasks'[s].token = getTokenSettle(tasks[s].arg, ajaxSettle(tasks'[s].tr)).val
            /\ tasks'[s].io[1].token = tasks'[s].token

\* C30: in MWCCStatic.postWithToken the body transmitted by the retry POST
\* carries the token resolved by the second getToken, the freshly fetched
\* one, as its token parameter and not the token sent with the first POST,
\* though both POSTs are made with the same options object.
C30_Original == [][C30_Step]_vars

(***************************************************************************)
(* The instances of SpecPeers as their callers see them.                   *)
(***************************************************************************)
\* What getToken(type) of instance i would do in the world p: settle from
\* the cache with a token, or issue a fetch.
PeerWouldGet(p, i, type) == getToken(peerCache(impl, p, i), type)

\* The step is one of instance i.
PeerActs(i) == peers' # peers /\ peers'.actor = i

C23_Step ==
    \A i, j \in Instances :
        PeerActs(i) /\ j # i =>
            \A type \in PeerTypes : PeerWouldGet(peers', j, type) = PeerWouldGet(peers, j, type)

\* C23: the token cache is the instance's own, in MWCCStatic and in Api with
\* its array indexed by creation order: no step of a getToken, badToken,
\* postWithToken, get or abort of one instance changes, for any other
\* instance and any type, the token its getToken would resolve with from the
\* cache or whether its getToken would issue a request.
C23_Isolated == [][C23_Step]_vars

\* Two instances of Api, each with a csrftoken of its own in its element of
\* the array.
C23_Witness ==
    /\ impl = "Api"
    /\ peers.inst[1].index # peers.inst[2].index
    /\ PeerWouldGet(peers, 1, "csrf").res = Resolved(Str("a"))
    /\ PeerWouldGet(peers, 2, "csrf").res = Resolved(Str("b"))
    /\ PeerWouldGet(peers, 1, "watch").issued = 1
    /\ PeerWouldGet(peers, 2, "watch").issued = 0

\* The step is abort() on instance i.
PeerAborts(i) == peers'.abort = peers.abort + 1 /\ peers'.actor = i

\* The requests of instance i in flight in the world p.
PeerOpen(p, i) == {k \in DOMAIN p.inst[i].task.io : p.inst[i].task.io[k].open}

\* The callbacks of a request of instance i run in the step.
PeerLands(i) ==
    /\ PeerActs(i)
    /\ PeerOpen(peers, i) # {}
    /\ peers'.inst[i].task.tr # peers.inst[i].task.tr \/ peers'.inst[i].task.pc # peers.inst[i].task.pc

\* Every request in flight has its controller in this.aborts of the instance
\* that issued it unless it was signalled, and this.aborts holds controllers
\* of its own instance only.
C21_Registered ==
    \A i \in Instances :
        /\ \A k \in DOMAIN peers.inst[i].aborts : peers.inst[i].aborts[k].owner = i
        /\ \A k \in PeerOpen(peers, i) :
              \/ peers.inst[i].task.io[k].sig
              \/ \E n \in DOMAIN peers.inst[i].aborts :
                    peers.inst[i].aborts[n] = peers.inst[i].ctrl[k]

C21_Step ==
    \A i \in Instances :
        /\ PeerAborts(i) =>
              /\ peers'.inst[i].aborts = <<>>
              /\ PeerOpen(peers', i) = PeerOpen(peers, i)
              /\ \A k \in PeerOpen(peers', i) : peers'.inst[i].task.io[k].sig
              /\ peers'.inst[i].task.res = peers.inst[i].task.res
              /\ peers'.inst[i].task.pc = peers.inst[i].task.pc
              /\ \A j \in Instances \ {i} : peers'.inst[j] = peers.inst[j]
        /\ PeerLands(i) /\ peers.inst[i].task.io[1].sig =>
              /\ ajaxSettle(peers'.inst[i].task.tr).st = "rejected"
              /\ ErrCode(ajaxSettle(peers'.inst[i].task.tr).val) = "aborted"
        /\ PeerLands(i) /\ ~peers.inst[i].task.io[1].sig =>
              peers'.inst[i].task.tr.ok

\* C21: abort() on an instance signals every controller registered on it
\* since its construction or previous abort and leaves this.aborts empty;
\* every request of the instance that is in flight then rejects with
\* 'aborted'; a call that has settled keeps its outcome, and the requests
\* and the this.aborts of every other instance are as they were.
C21_AbortOwn == []C21_Registered /\ [][C21_Step]_vars

\* abort() on instance 1 has rejected its request with 'aborted' while the
\* request of instance 2 is in flight, not signalled.
C21_Witness ==
    /\ peers.abort = 1
    /\ peers.inst[1].aborts = <<>>
    /\ peers.inst[1].task.kind = "ajax"
    /\ peers.inst[1].task.res.st = "rejected"
    /\ ErrCode(peers.inst[1].task.res.val) = "aborted"
    /\ PeerOpen(peers, 2) # {}
    /\ ~peers.inst[2].task.io[1].sig
    /\ Len(peers.inst[2].aborts) = 1

(***************************************************************************)
(* The requests of SpecAjax as their callers see them.                     *)
(***************************************************************************)
\* Slot s holds a call of get or post of SpecAjax.
Sent(s) == tasks[s].kind = "ajax" /\ tasks[s].call # Undef

\* Its request is in flight.
InFlight(s) == Sent(s) /\ tasks[s].pc = "req"

SentParameters(s) == tasks[s].call.parameters

SentPayload(s) == tasks[s].io[1].params

\* The parameters as ajax hands them to preprocessParameters: a token that
\* is a string has been taken out.
Handed(s) ==
    IF takeToken(SentParameters(s)) = Str("") /\ ~hasKey(SentParameters(s), "token")
    THEN SentParameters(s)
    ELSE IF valueAt(SentParameters(s), "token").t = "string"
    THEN deleteKey(SentParameters(s), "token")
    ELSE SentParameters(s)

\* C24: preprocessParameters leaves no key whose value was false or
\* undefined, has replaced every array by its elements joined with '|',
\* has left every other value (the empty string, 0, true and null included)
\* as it was under the same key, and has added no key.
C24_Preprocessed ==
    \A s \in Slots : Sent(s) =>
        LET before == Handed(s)
            after == tasks[s].caller
        IN /\ \A i \in DOMAIN before :
                 LET key == before[i].k
                     val == before[i].v
                 IN CASE val = Bool(FALSE) \/ val = Undef -> ~hasKey(after, key)
                      [] val = Arr(<<Str("A"), Num(2)>>) -> hasKey(after, key) /\ valueAt(after, key) = Str("A|2")
                      [] val = Arr(<<Str("edit")>>) -> hasKey(after, key) /\ valueAt(after, key) = Str("edit")
                      [] val = Arr(<<>>) -> hasKey(after, key) /\ valueAt(after, key) = Str("")
                      [] OTHER -> val.t # "array" /\ hasKey(after, key) /\ valueAt(after, key) = val
           /\ \A i \in DOMAIN after : hasKey(before, after[i].k)
           /\ \A i, j \in DOMAIN after : after[i].k = after[j].k => i = j

\* The parameters of an edit after ajax: the array joined, false and
\* undefined gone, true, 0, '' and null as they were.
C24_Witness ==
    \E s \in Slots :
        /\ Sent(s)
        /\ SentParameters(s) = EditParameters
        /\ tasks[s].caller = <<Prop("titles", Str("A|2")), Prop("bot", Bool(TRUE)),
                               Prop("section", Num(0)), Prop("summary", Str("")),
                               Prop("tags", Null)>>

\* The value of the caller as the request carries it: an array joined, and
\* in the body of a POST the string of the value.
Carried(method, val) ==
    LET joined == IF val.t = "array"
                  THEN Str(join([j \in DOMAIN val.v |-> String(val.v[j])]))
                  ELSE val
    IN IF method = "GET" THEN joined ELSE Str(toUSVString(joined))

\* The last key of a payload.
LastKey(payload) == payload[Len(payload)].k

Supplies(parameters, key) ==
    hasKey(parameters, key) /\ valueAt(parameters, key) \notin {Bool(FALSE), Undef}

DefaultKeys == {"action", "format", "formatversion"}

\* The payload carries the three keys, with the caller's value where the
\* caller supplies one and with the default where not.
CarriesDefaults(payload, method, parameters) ==
    \A key \in DefaultKeys :
        /\ hasKey(payload, key)
        /\ valueAt(payload, key) =
              IF Supplies(parameters, key) THEN Carried(method, valueAt(parameters, key))
              ELSE valueAt(ajaxDefaults, key)

\* The call of newSection in slot s has its POST in flight.
NewSectionPosts(s) ==
    /\ PWT(s)
    /\ tasks[s].call # Undef
    /\ tasks[s].pc \in {"post", "retrypost"}

\* C26: every request of get, post and newSection carries action, format
\* and formatversion, with the values 'query', 'json' and '2' unless the
\* caller's parameters supply a value under the same key, and then with the
\* caller's value.
C26_Defaults ==
    \A s \in Slots :
        /\ InFlight(s) =>
              CarriesDefaults(SentPayload(s), tasks[s].call.method, SentParameters(s))
        /\ NewSectionPosts(s) =>
              CarriesDefaults(newSectionPayload(tasks[s]), "POST", tasks[s].call.parameters)

\* A GET on an instance made with params of its own, whose caller names the
\* action and not the format: action=edit, format=json, formatversion=1.
C26_Witness ==
    \E s \in Slots :
        /\ InFlight(s)
        /\ defaults = <<Prop("uselang", Str("en"))>>
        /\ tasks[s].call.method = "GET"
        /\ tasks[s].call.own = <<>>
        /\ SentParameters(s) = <<Prop("action", Str("edit")), Prop("formatversion", Str("1"))>>
        /\ SentPayload(s) = <<Prop("uselang", Str("en")), Prop("action", Str("edit")),
                              Prop("format", Str("json")), Prop("formatversion", Str("1"))>>

\* C27 as stated: on an instance made with {params: {formatversion:
\* undefined}} or {params: {formatversion: false}}, a request whose own
\* parameters do not mention formatversion is sent without formatversion.
C27_Original ==
    \A s \in Slots :
        /\ InFlight(s)
        /\ hasKey(defaults, "formatversion")
        /\ valueAt(defaults, "formatversion") \in {Undef, Bool(FALSE)}
        /\ ~hasKey(SentParameters(s), "formatversion")
        => ~hasKey(SentPayload(s), "formatversion")

\* C29 as stated: every entry of the additionalParams of newSection is in
\* the body of the action=edit&section=new POST, next to title,
\* sectiontitle and text.
C29_Original ==
    \A s \in Slots :
        NewSectionPosts(s) =>
            LET payload == newSectionPayload(tasks[s])
                additionalParams == tasks[s].call.additionalParams
            IN /\ valueAt(payload, "action") = Str("edit")
               /\ valueAt(payload, "section") = Str("new")
               /\ \A key \in {"title", "sectiontitle", "text"} : hasKey(payload, key)
               /\ \A i \in DOMAIN additionalParams :
                     /\ hasKey(payload, additionalParams[i].k)
                     /\ valueAt(payload, additionalParams[i].k)
                           = Carried("POST", additionalParams[i].v)

C31_Step ==
    \A s \in Slots :
        /\ Started(s)
        /\ tasks'[s].kind = "getToken"
        /\ tasks'[s].res.st = "resolved"
        => ~hist[TokenName(tasks'[s].arg)].stale

\* C31 as stated: once badToken has been called for a type, no later
\* getToken for the type resolves with a token of a token fetch that was
\* issued before that call, the fetch whose response arrives after the call
\* included.
C31_Original == [][C31_Step]_vars

\* C37 as stated: in every reachable state no entry of the token cache is
\* the empty string.
C37_Original == \A n \in DOMAIN tokens : tokens[n] # ""

\* How the getToken of postWithToken settled in the step its fetch landed.
GotToken(s) == getTokenSettle(tasks[s].arg, ajaxSettle(tasks'[s].tr))

\* Every POST of postWithToken carries a token, a non-empty string.
C33_Tokened ==
    \A s \in Slots : PWT(s) =>
        \A k \in DOMAIN tasks[s].io :
            tasks[s].io[k].method = "POST" =>
                tasks[s].io[k].token.t = "string" /\ tasks[s].io[k].token.v # ""

C33_Step ==
    \A s \in Slots : PWT(s) =>
        /\ Landed(s, "fetch") /\ GotToken(s).st = "rejected" =>
              /\ tasks'[s].pc = "done"
              /\ tasks'[s].res = GotToken(s)
              /\ tasks'[s].posts = 0
              /\ tasks'[s].io = <<>>
              /\ aborts' = aborts
        /\ Landed(s, "retryfetch") /\ GotToken(s).st = "rejected" =>
              /\ tasks'[s].pc = "done"
              /\ tasks'[s].res = GotToken(s)
              /\ tasks'[s].posts = 1
              /\ tasks'[s].io = <<>>
              /\ aborts' = aborts

\* C33: postWithToken issues no POST without a token: when its first
\* getToken rejects, the call rejects with that error and has issued no
\* POST; when the getToken after a 'badtoken' rejects, the call rejects with
\* that error and no second POST is issued.
C33_NoPostWithoutToken == []C33_Tokened /\ [][C33_Step]_vars

\* A call whose first POST had 'badtoken' and whose second token fetch gave
\* no token of the type: rejected with 'badnamedtoken' after one POST.
C33_Witness ==
    \E s \in Slots :
        /\ PWT(s) /\ tasks[s].pc = "done"
        /\ BadTokenError(tasks[s].first)
        /\ tasks[s].fetches = 2 /\ tasks[s].posts = 1
        /\ tasks[s].res.st = "rejected"
        /\ ErrCode(tasks[s].res.val) = "badnamedtoken"

\* The properties of an object, their order left aside.
AsSet(o) == {<<o[i].k, o[i].v>> : i \in DOMAIN o}

\* The call of continuedQuery in slot s issues its next GET in the step.
ContinuedNext(s) ==
    /\ tasks[s].kind = "continuedQuery"
    /\ tasks[s].call # Undef
    /\ tasks'[s].count = tasks[s].count + 1

\* The continue object of the response the next GET follows.
LastContinue(s) == entries(resContOf(tasks'[s].responses[Len(tasks'[s].responses)]))

C34_Step ==
    \A s \in Slots :
        /\ Started(s) /\ tasks'[s].kind = "continuedQuery" =>
              \A i \in DOMAIN tasks'[s].call.parameters :
                  LET p == tasks'[s].call.parameters[i] IN
                  p.v \notin {Bool(FALSE), Undef} =>
                      <<p.k, Carried("GET", p.v)>> \in AsSet(tasks'[s].io[1].params)
        /\ ContinuedNext(s) =>
              AsSet(tasks'[s].io[1].params)
                  = AsSet(assign(tasks[s].io[1].params, LastContinue(s)))

\* C34 as stated: request 1 of continuedQuery carries the caller's
\* parameters, and the parameters of request i+1 are those of request i with
\* the keys of the continue object of response i overriding the keys of the
\* same name.
C34_Original == [][C34_Step]_vars

\* The outcome of every chunk POST that has settled is kept, and of no other.
C35_Kept ==
    \A s \in Slots :
        MQ(s) /\ tasks[s].pc = "chunks" =>
            /\ DOMAIN tasks[s].responses = DOMAIN tasks[s].io
            /\ \A j \in DOMAIN tasks[s].io :
                  tasks[s].io[j].open <=> tasks[s].responses[j] = Pending

\* The chunk POST i that settles in a step leaves its outcome at place i,
\* whichever of the POSTs have settled before it; the array the call is
\* resolved with has the outcome of POST j at place j.
C35_Step ==
    \A s \in Slots :
        MqLanded(s) =>
            \E i \in Outstanding(s) :
                LET got == ajaxSettle(tasks'[s].tr).val IN
                IF Outstanding(s) = {i}
                THEN tasks'[s].res =
                         Resolved(Arr([j \in DOMAIN tasks[s].io |->
                                          IF j = i THEN got ELSE tasks[s].responses[j].val]))
                ELSE /\ \A j \in DOMAIN tasks[s].io :
                           tasks'[s].io[j].open <=> (tasks[s].io[j].open /\ j # i)
                     /\ tasks'[s].responses[i] = Resolved(got)
                     /\ \A j \in DOMAIN tasks[s].io \ {i} :
                           tasks'[s].responses[j] = tasks[s].responses[j]

\* C35: the array massQuery is resolved with is in the order of the chunks,
\* not in the order the POSTs settle in: its i-th entry is the outcome, the
\* body or the error, of the POST that carries the i-th chunk.
C35_ChunkOrder == []C35_Kept /\ [][C35_Step]_vars

\* Of three or more chunk POSTs the third has failed and the second has
\* been answered while the first is in flight.
C35_Witness ==
    \E s \in Slots :
        /\ MQ(s) /\ tasks[s].pc = "chunks"
        /\ Len(tasks[s].io) >= 3
        /\ tasks[s].io[1].open
        /\ tasks[s].responses[1] = Pending
        /\ tasks[s].responses[2] = Resolved(Obj(PlainBody))
        /\ tasks[s].responses[3].st = "resolved"
        /\ ErrCode(tasks[s].responses[3].val) = "http"

\* C36 as stated: for every number passed as options.apilimit, positive,
\* zero or negative, the loop of massQuery ends and the promise of the call
\* settles once its POSTs have settled.
C36_Original ==
    \A s \in Slots : (MQ(s) /\ tasks[s].pc # "done") ~> (tasks[s].pc = "done")

\* C32 as stated: in the classes MWCC and Api the promise of postWithToken
\* settles in the end when every request settles, also when the first POST
\* fails with 'badtoken' and the retry POST succeeds.
C32_Original ==
    \A i \in Instances :
        (peers.inst[i].task.kind = "postWithToken" /\ peers.inst[i].task.res = Pending)
            ~> (peers.inst[i].task.res # Pending)

\* The call of slot s is a call of edit.
Edits(s) == tasks[s].call # Undef /\ tasks[s].call.method = "edit"

\* What the GET of the call settled with.
RevOf(s) == tasks[s].call.rev

\* The pages of the answer, none when it has no query.pages.
PagesOf(s) ==
    LET b == RevOf(s).val.v IN
    IF "query" \in DOMAIN b /\ "pages" \in DOMAIN b.query THEN b.query.pages ELSE <<>>

\* The GET succeeded, and its answer holds an existing, valid page with a
\* revision that has a timestamp and content.
GoodRevision(s) ==
    /\ RevOf(s).st = "resolved"
    /\ PagesOf(s) # <<>>
    /\ LET page == PagesOf(s)[1] IN
          /\ "invalidreason" \notin DOMAIN page
          /\ "missing" \notin DOMAIN page
          /\ "revisions" \in DOMAIN page
          /\ page.revisions # <<>>
          /\ "timestamp" \in DOMAIN page.revisions[1]
          /\ "slots" \in DOMAIN page.revisions[1]
          /\ "content" \in DOMAIN page.revisions[1].slots.main

\* The rejection of an edit whose GET did not bring such a revision.
EditRejection(s) ==
    /\ tasks[s].res.st = "rejected"
    /\ IF RevOf(s).st = "rejected" THEN tasks[s].res = RevOf(s)
       ELSE IF PagesOf(s) # <<>> /\ "invalidreason" \in DOMAIN PagesOf(s)[1]
       THEN ErrCode(tasks[s].res.val) = "invalidtitle"
       ELSE IF PagesOf(s) # <<>> /\ "missing" \in DOMAIN PagesOf(s)[1]
       THEN ErrCode(tasks[s].res.val) = "nocreate-missing"
       ELSE ErrCode(tasks[s].res.val) = "ok-but-empty"

\* The POST of the call carries val under key, or the result of the
\* transform has the key.
EditCarries(s, key, val) ==
    \/ hasKey(editParamsOf(tasks[s].call.result.val), key)
    \/ /\ hasKey(editPayload(tasks[s]), key)
       /\ valueAt(editPayload(tasks[s]), key) = Str(val)

\* C38: edit calls transform, fetches the token and issues the POST only
\* after its GET has succeeded with an existing, valid page whose revision
\* has a timestamp and content; otherwise it rejects with the error of the
\* GET, 'ok-but-empty', 'invalidtitle' or 'nocreate-missing', transform not
\* called and no request but the GET issued.  The POST carries the timestamp
\* of the revision as basetimestamp, and nocreate, unless the result of the
\* transform has the key.
C38_EditGuarded ==
    \A s \in Slots :
        Edits(s) =>
            /\ (tasks[s].call.transformed > 0 \/ tasks[s].issued > 1 \/ PWT(s))
                  => GoodRevision(s)
            /\ (RevOf(s).st # "pending" /\ ~GoodRevision(s))
                  => /\ tasks[s].pc = "done"
                     /\ EditRejection(s)
                     /\ tasks[s].call.transformed = 0
                     /\ tasks[s].issued = 1
                     /\ tasks[s].posts = 0
                     /\ tasks[s].fetches = 0
            /\ tasks[s].pc \in {"post", "retrypost"}
                  => /\ EditCarries(s, "basetimestamp", PagesOf(s)[1].revisions[1].timestamp)
                     /\ EditCarries(s, "nocreate", "true")

\* The POST of an edit is in flight with the basetimestamp of the revision,
\* the transform having returned a text.
C38_Witness ==
    \E s \in Slots :
        /\ Edits(s)
        /\ tasks[s].pc = "post"
        /\ tasks[s].call.result = Resolved(Str("new"))
        /\ hasKey(editPayload(tasks[s]), "basetimestamp")
        /\ valueAt(editPayload(tasks[s]), "basetimestamp") = Str("T1")
        /\ valueAt(editPayload(tasks[s]), "text") = Str("new")

\* C39 as stated: when config.set(name, v) has returned true, config.get(name)
\* returns v and config.exists(name) returns true; when it has returned
\* false, the stored value is what it was.
C39_Original ==
    config.last.op = "set" =>
        IF config.last.ret = Bool(TRUE)
        THEN /\ configGet(config.data, config.last.name) = config.last.value
             /\ configExists(config.data, config.last.name) = Bool(TRUE)
        ELSE configValue(config.data, config.last.name) = config.last.old
====
